---- MODULE Spec2Model ----
(***************************************************************************)
(* Model of epimodel/pymc3_models/cm_effect/models.py: the NPI-effect      *)
(* model variants built on BaseCMModel.  The state is the dataset object   *)
(* the caller hands to a constructor (its masks are mutated in place by    *)
(* most constructors), a pristine copy of it as loaded, and the model      *)
(* instance the caller currently holds.                                    *)
(***************************************************************************)
EXTENDS Integers, Sequences, FiniteSets, TLC

(* ----------------------------- bounds ---------------------------------- *)
\* number of regions of the dataset (len(data.Rs))
nRs == 2
\* number of days of the dataset (len(data.Ds))
nDs == 40
\* ActiveCMs values are k/ActiveUnit for k in 0..ActiveUnit (the interval [0,1])
ActiveUnit == 2

\* largest number of posterior draws handed to produce_CIs
nDraws == 3

(* ------------------------- program constants --------------------------- *)
CMDelayCut == 30
TrailingDays == 7

Rs == 0 .. (nRs - 1)
Ds == 0 .. (nDs - 1)
\* data.CMs: the ordered NPI names; index 0 is an ordinary NPI
CMs == <<"Mask Wearing", "Symptomatic Testing">>
nCMs == Len(CMs)
CMIndx == 0 .. (nCMs - 1)

Variants == {"CMDeath_Final", "CMActive_Final", "CMCombined_Final",
             "CMCombined_Final_DifDelays", "CMCombined_Final_V3",
             "CMCombined_Final_NoNoise", "CMCombined_Additive",
             "CMCombined_Final_DifEffects", "CMCombined_Final_ICL"}

VARIABLES data, raw, self, last, calc

vars == <<data, raw, self, last, calc>>

(* ------------------------------ dataset -------------------------------- *)
\* One observed series of one region: which days the loader masked and on
\* which days the cumulative count is NaN.
SeriesClean == [mask |-> {}, nan |-> {}]
SeriesOnset == [mask |-> {}, nan |-> 0 .. (CMDelayCut + 1)]
SeriesMasked == [mask |-> Ds, nan |-> {}]
SeriesGaps == [mask |-> {CMDelayCut + 1}, nan |-> {nDs - 1}]
SeriesProfiles == {SeriesClean, SeriesOnset, SeriesMasked, SeriesGaps}

\* One row ActiveCMs[r, cm, :]: the NPI is switched on at level l from day s on.
Row(s, l) == [d \in Ds |-> IF d >= s THEN l ELSE 0]

\* the boolean grid that is true on the days f[r] of region r
Grid(f) == [r \in Rs |-> [d \in Ds |-> d \in f[r]]]

MakeData(cases, deaths, active) ==
    LET cm == [r \in Rs |-> cases[r].mask]
        cn == [r \in Rs |-> cases[r].nan]
        dm == [r \in Rs |-> deaths[r].mask]
        dn == [r \in Rs |-> deaths[r].nan]
    IN [NewCases_mask |-> Grid(cm), Confirmed_nan |-> Grid(cn),
        NewDeaths_mask |-> Grid(dm), Deaths_nan |-> Grid(dn),
        ActiveCMs |-> active]

\* region r has "Symptomatic Testing" fully active on its last (r+1) % 3 days
\* and the other NPI fully active from day CMDelayCut + 1 on
StaggeredActive ==
    [r \in Rs |-> [c \in CMIndx |->
        IF CMs[c + 1] = "Symptomatic Testing"
        THEN Row(nDs - ((r + 1) % 3), ActiveUnit)
        ELSE Row(CMDelayCut + 1, ActiveUnit)]]

(* --------------------------- delay kernels ----------------------------- *)
\* The np.array literals of the constructors, in units of 10^-9 (each entry
\* rounded to the nearest unit); entry i of a sequence is the weight of a
\* delay of i - 1 days.
KernelUnit == 10 ^ 9

\* the infection-to-confirmation kernel with its weights moved one day
\* forward, so that a confirmation can fall on the day of infection
DelayProbCases_SameDay ==
    << 25281700, 37179650, 51812240, 62741250, 69613340, 72771740, 72923970,
       70771840, 66948680, 62099450, 56599170, 50899900, 45204200, 39765730, 34708910,
       29989500, 25777210, 21999230, 18717230, 15771480, 13265640, 11107830, 9288270,
       7723100, 6411620, 5305720, 4378950, 3588010, 2957910, 2421700, 1974840, 0 >>

\* self.DelayProbCases (self.DelayProb of CMActive_Final): infection to confirmation
DelayProbCases ==
    << 0, 25281700, 37179650, 51812240, 62741250, 69613340, 72771740, 72923970,
       70771840, 66948680, 62099450, 56599170, 50899900, 45204200, 39765730, 34708910,
       29989500, 25777210, 21999230, 18717230, 15771480, 13265640, 11107830, 9288270,
       7723100, 6411620, 5305720, 4378950, 3588010, 2957910, 2421700, 1974840 >>

\* self.DelayProbDeaths (self.DelayProb of CMDeath_Final): infection to death
DelayProbDeaths ==
    << 0, 2246, 39038, 234307, 783555, 1912216, 3787184, 6459239,
       9942657, 14061071, 18652792, 23431142, 28196506, 32766800, 36803157, 40302620,
       43052195, 45063714, 46331505, 46879441, 46733406, 45956144, 44716450, 42932746,
       40861452, 38508208, 36029420, 33460170, 30806450, 28176603, 25616592, 23135437,
       20783727, 18607438, 16550566, 14652704, 12940938, 11369592, 9932339, 8660634,
       7538055, 6515600, 5635123, 4842962, 4147935, 3562673, 3034807, 2594067,
       2195190, 1854543, 1583332, 1330023, 1117164, 935360, 787780, 658602,
       548147, 458151, 385879, 321623, 266129, 221365, 180737, 152350 >>

\* self.DelayProbDeaths of CMCombined_Final_V3 and CMCombined_Final_NoNoise
DelayProbDeaths_V3 ==
    << 0, 1646, 31503, 186361, 626528, 1541725, 3101036, 5356635,
       8339790, 11940485, 15993905, 20318508, 24773206, 29046449, 33061203, 36608903,
       39564270, 41895712, 43571581, 44581688, 44954399, 44747414, 44003606, 42754599,
       41195287, 39260850, 37182436, 34845721, 32484588, 30081485, 27651918, 25279272,
       23010358, 20763670, 18700584, 16756024, 14960015, 13273756, 11783113, 10371629,
       9137572, 7982875, 6962657, 6059518, 5264506, 4568330, 3931891, 3380984,
       2915421, 2494687, 2131521, 1827501, 1556931, 1319099, 1117298, 946589,
       806526, 681336, 574623, 480158, 402212, 335345, 282450, 238110 >>

\* self.DelayProbCasesShort of CMCombined_Final_DifDelays
DelayProbCasesShort ==
    << 0, 40869030, 56233890, 74048120, 84646920, 88619310, 87501490, 82731230,
       75756790, 67665970, 59104150, 50930480, 43219160, 36220080, 30005230, 24720370,
       20168090, 16372810, 13189030, 10579120, 8443490, 6706400, 5296290, 4165580,
       3272650, 2555110, 2000110, 1555830, 1206480, 939640, 721110, 556060 >>

\* self.DelayProbCasesLong of CMCombined_Final_DifDelays
DelayProbCasesLong ==
    << 0, 16908210, 26027950, 37722940, 47465700, 54840090, 59696480, 62317370,
       62925360, 61976100, 59839040, 56773830, 53112110, 49145010, 45029090, 40852480,
       36822510, 32908950, 29242590, 25853780, 22740180, 19937390, 17396870, 15115310,
       13095690, 11300810, 9723910, 8329980, 7162890, 6103380, 5203490, 4430530 >>

\* self.SI of CMCombined_Final_ICL: the serial interval
SI ==
    << 586778, 11531756, 52208856, 114080678, 162762756, 176006922, 156763867, 121060233,
       83863033, 53285056, 31577611, 17651589, 9384667, 4792267, 2360400, 1134278,
       526733, 238822, 103756, 45622, 20133, 7678, 3844, 1700,
       567, 222, 111, 22, 11, 33 >>

\* the kernel attributes with the infection-to-death kernel cut to the length
\* of the infection-to-confirmation kernel
KernelAttrs_Cut(v) ==
    [DelayProbCases |-> DelayProbCases,
     DelayProbDeaths |-> SubSeq(DelayProbDeaths, 1, Len(DelayProbCases))]

\* the kernel attributes each class's __init__ sets after super().__init__;
\* DelayProbCases_0 and DelayProbCases_1 are the rows of the np.stack of
\* CMCombined_Final_DifDelays
KernelAttrs(v) ==
    CASE v = "CMDeath_Final" -> [DelayProb |-> DelayProbDeaths]
      [] v = "CMActive_Final" -> [DelayProb |-> DelayProbCases]
      [] v \in {"CMCombined_Final_V3", "CMCombined_Final_NoNoise"} ->
            [DelayProbCases |-> DelayProbCases, DelayProbDeaths |-> DelayProbDeaths_V3]
      [] v = "CMCombined_Final_DifDelays" ->
            [DelayProbCasesShort |-> DelayProbCasesShort,
             DelayProbCasesLong |-> DelayProbCasesLong,
             DelayProbCases_0 |-> DelayProbCasesShort,
             DelayProbCases_1 |-> DelayProbCasesLong,
             DelayProbDeaths |-> DelayProbDeaths]
      [] v = "CMCombined_Final_ICL" ->
            [SI |-> SI, DelayProbCases |-> DelayProbCases,
             DelayProbDeaths |-> DelayProbDeaths]
      [] OTHER -> [DelayProbCases |-> DelayProbCases, DelayProbDeaths |-> DelayProbDeaths]

(* ------------------------- model instance ------------------------------ *)
NoModel == [variant |-> "none",
            all_observed_active |-> <<>>, all_observed_deaths |-> <<>>,
            observed_days |-> <<>>,
            nODs |-> 0,
            short_rs |-> {}, long_rs |-> {},
            trace |-> FALSE,
            named_vars |-> {}, attrs |-> {},
            kernels |-> <<>>]

\* BaseCMModel.__init__ : self.d = data (a reference), self.trace = None
BaseCMModel_init(v) ==
    [NoModel EXCEPT !.variant = v, !.nODs = nDs - CMDelayCut, !.trace = FALSE]

(* --------------------- live-cell tests of the loops -------------------- *)
\* CaseLive without the trailing-week test (the death loop's test copied over)
CaseLive_NoTrailing(dt, r, d) ==
    /\ dt.NewCases_mask[r][d] = FALSE
    /\ d > CMDelayCut
    /\ ~dt.Confirmed_nan[r][d]

CaseLive(dt, r, d) ==
    /\ dt.NewCases_mask[r][d] = FALSE
    /\ d > CMDelayCut
    /\ ~dt.Confirmed_nan[r][d]
    /\ d < nDs - TrailingDays

\* DeathLive with the warm-up test off by one (d >= CMDelayCut)
DeathLive_OffByOne(dt, r, d) ==
    /\ dt.NewDeaths_mask[r][d] = FALSE
    /\ d >= CMDelayCut
    /\ ~dt.Deaths_nan[r][d]

DeathLive(dt, r, d) ==
    /\ dt.NewDeaths_mask[r][d] = FALSE
    /\ d > CMDelayCut
    /\ ~dt.Deaths_nan[r][d]

ICLCaseLive(dt, r, actual_day) ==
    /\ dt.NewCases_mask[r][actual_day] = FALSE
    /\ ~dt.Confirmed_nan[r][actual_day]

ICLDeathLive(dt, r, actual_day) ==
    /\ dt.NewDeaths_mask[r][actual_day] = FALSE
    /\ ~dt.Deaths_nan[r][actual_day]

FlatIndex(r, d) == r * nDs + d

ICLFlatIndex(r, d) == r * (nDs - CMDelayCut) + d

(* ------------------------------ the loops ------------------------------ *)
\* The loops visit the cells row-major (for r: for d:), append the flat index
\* of a live cell and set the mask flag of every other cell.  A cell is read
\* only in its own iteration, so the list is the live cells' indices in visit
\* order and the mask left behind is the input mask with every non-live cell
\* set.

\* the visit order of "for r in range(nRs): for d in range(n)", as pairs
Visits(n) == [i \in 1 .. (nRs * n) |-> <<(i - 1) \div n, (i - 1) % n>>]

\* ObservedActiveLoop setting the mask flag of every visited cell, live or not
ObservedActiveLoop_MarksAll(dt) ==
    LET live == SelectSeq(Visits(nDs), LAMBDA c : CaseLive(dt, c[1], c[2]))
    IN [d |-> [dt EXCEPT !.NewCases_mask = [r \in Rs |-> [d \in Ds |-> TRUE]]],
        observed |-> [k \in DOMAIN live |-> FlatIndex(live[k][1], live[k][2])]]

ObservedActiveLoop(dt) ==
    LET live == SelectSeq(Visits(nDs), LAMBDA c : CaseLive(dt, c[1], c[2]))
    IN [d |-> [dt EXCEPT !.NewCases_mask =
                [r \in Rs |-> [d \in Ds |->
                    IF CaseLive(dt, r, d) THEN dt.NewCases_mask[r][d] ELSE TRUE]]],
        observed |-> [k \in DOMAIN live |-> FlatIndex(live[k][1], live[k][2])]]

\* ObservedDeathsLoop writing the outcome of the test into the mask: the flag
\* of a cell is the negation of "unmasked and counted"
ObservedDeathsLoop_Rewrites(dt) ==
    LET live == SelectSeq(Visits(nDs), LAMBDA c : DeathLive(dt, c[1], c[2]))
    IN [d |-> [dt EXCEPT !.NewDeaths_mask =
                [r \in Rs |-> [d \in Ds |-> dt.Deaths_nan[r][d]]]],
        observed |-> [k \in DOMAIN live |-> FlatIndex(live[k][1], live[k][2])]]

ObservedDeathsLoop(dt) ==
    LET live == SelectSeq(Visits(nDs), LAMBDA c : DeathLive(dt, c[1], c[2]))
    IN [d |-> [dt EXCEPT !.NewDeaths_mask =
                [r \in Rs |-> [d \in Ds |->
                    IF DeathLive(dt, r, d) THEN dt.NewDeaths_mask[r][d] ELSE TRUE]]],
        observed |-> [k \in DOMAIN live |-> FlatIndex(live[k][1], live[k][2])]]

\* CMDeath_Final: the else branch only records the skipped day
ObservedDaysLoop(dt) ==
    LET live == SelectSeq(Visits(nDs), LAMBDA c : DeathLive(dt, c[1], c[2]))
    IN [d |-> dt,
        observed |-> [k \in DOMAIN live |-> FlatIndex(live[k][1], live[k][2])]]

\* self.ObservedDaysIndx = np.arange(self.CMDelayCut, len(self.d.Ds))
ObservedDaysIndx == [d \in 0 .. (nDs - CMDelayCut - 1) |-> CMDelayCut + d]

\* CMCombined_Final_ICL: one loop over range(nODs) handling both channels
ICLLoop(dt) ==
    LET nODs == nDs - CMDelayCut
        inWin(d) == d >= CMDelayCut /\ (d - CMDelayCut) \in DOMAIN ObservedDaysIndx
        liveC == SelectSeq(Visits(nODs),
                    LAMBDA c : ICLCaseLive(dt, c[1], ObservedDaysIndx[c[2]]))
        liveD == SelectSeq(Visits(nODs),
                    LAMBDA c : ICLDeathLive(dt, c[1], ObservedDaysIndx[c[2]]))
    IN [d |-> [dt EXCEPT
                 !.NewCases_mask =
                    [r \in Rs |-> [d \in Ds |->
                        IF inWin(d) /\ ~ICLCaseLive(dt, r, d)
                        THEN TRUE ELSE dt.NewCases_mask[r][d]]],
                 !.NewDeaths_mask =
                    [r \in Rs |-> [d \in Ds |->
                        IF inWin(d) /\ ~ICLDeathLive(dt, r, d)
                        THEN TRUE ELSE dt.NewDeaths_mask[r][d]]]],
        observed_active |->
            [k \in DOMAIN liveC |-> ICLFlatIndex(liveC[k][1], liveC[k][2])],
        observed_deaths |->
            [k \in DOMAIN liveD |-> ICLFlatIndex(liveD[k][1], liveD[k][2])]]

(* ---------------------------- constructors ----------------------------- *)
\* Each returns the new instance and the dataset object as the constructor
\* leaves it (self.d is a reference to the caller's object).
CMDeath_Final_init(dt) ==
    LET res == ObservedDaysLoop(dt)
    IN [self |-> [BaseCMModel_init("CMDeath_Final") EXCEPT
                     !.kernels = KernelAttrs("CMDeath_Final"),
                     !.observed_days = res.observed],
        d |-> res.d]

CMActive_Final_init(dt) ==
    LET res == ObservedActiveLoop(dt)
    IN [self |-> [BaseCMModel_init("CMActive_Final") EXCEPT
                     !.kernels = KernelAttrs("CMActive_Final"),
                     !.observed_days = res.observed],
        d |-> res.d]

\* the two loops shared verbatim by CMCombined_Final, _V3, _NoNoise,
\* CMCombined_Additive and _DifEffects
CombinedLoops(v, dt, base) ==
    LET ra == ObservedActiveLoop(dt)
        rd == ObservedDeathsLoop(ra.d)
    IN [self |-> [base EXCEPT !.kernels = KernelAttrs(v),
                              !.all_observed_active = ra.observed,
                              !.all_observed_deaths = rd.observed],
        d |-> rd.d]

CMCombined_Final_init(dt) ==
    CombinedLoops("CMCombined_Final", dt, BaseCMModel_init("CMCombined_Final"))

CMCombined_Final_V3_init(dt) ==
    CombinedLoops("CMCombined_Final_V3", dt, BaseCMModel_init("CMCombined_Final_V3"))

CMCombined_Final_NoNoise_init(dt) ==
    CombinedLoops("CMCombined_Final_NoNoise", dt,
                  BaseCMModel_init("CMCombined_Final_NoNoise"))

CMCombined_Additive_init(dt) ==
    CombinedLoops("CMCombined_Additive", dt, BaseCMModel_init("CMCombined_Additive"))

CMCombined_Final_DifEffects_init(dt) ==
    CombinedLoops("CMCombined_Final_DifEffects", dt,
                  BaseCMModel_init("CMCombined_Final_DifEffects"))

\* self.d.CMs.index("Symptomatic Testing")
testing_indx == (CHOOSE c \in 1 .. Len(CMs) : CMs[c] = "Symptomatic Testing") - 1

\* np.sum(data.ActiveCMs[r, testing_indx, :], axis=-1), in units of 1/ActiveUnit
RECURSIVE SumDays(_, _)
SumDays(row, n) == IF n = 0 THEN 0 ELSE row[n - 1] + SumDays(row, n - 1)

TestingSum(dt, r) == SumDays(dt.ActiveCMs[r][testing_indx], nDs)

\* np.nonzero(sum > 1)[0]
ShortRs(dt) == {r \in Rs : TestingSum(dt, r) > 1 * ActiveUnit}

\* np.nonzero(sum < 1)[0]
LongRs(dt) == {r \in Rs : TestingSum(dt, r) < 1 * ActiveUnit}

\* data.ActiveCMs[:, testing_indx, :] = 0
ZeroTesting(dt) ==
    [dt EXCEPT !.ActiveCMs =
        [r \in Rs |-> [c \in CMIndx |->
            IF c = testing_indx THEN [d \in Ds |-> 0] ELSE dt.ActiveCMs[r][c]]]]

CMCombined_Final_DifDelays_init(dt) ==
    LET base == [BaseCMModel_init("CMCombined_Final_DifDelays") EXCEPT
                    !.short_rs = ShortRs(dt), !.long_rs = LongRs(dt)]
    IN CombinedLoops("CMCombined_Final_DifDelays", ZeroTesting(dt), base)

CMCombined_Final_ICL_init(dt) ==
    LET res == ICLLoop(dt)
    IN [self |-> [BaseCMModel_init("CMCombined_Final_ICL") EXCEPT
                     !.kernels = KernelAttrs("CMCombined_Final_ICL"),
                     !.all_observed_active = res.observed_active,
                     !.all_observed_deaths = res.observed_deaths],
        d |-> res.d]

(* ----------------------------- build_model ----------------------------- *)
\* build_model is a straight-line sequence of declarations.  A step is
\*   <<"decl", name, target, reads>>  self.target = pm.X(name, ...) or
\*                                    self.Det/self.Normal(name, ...), whose
\*                                    expression reads the attributes `reads`
\*   <<"assign", target, reads>>      self.target = expression
\*   <<"index", list, lib>>           X[self.list] on a theano or numpy array
\*   <<"reshape", from, to>>          ndarray.reshape to a fixed size
Dc(name, target, reads) == <<"decl", name, target, reads>>
Dn(name, reads) == <<"decl", name, name, reads>>
As(target, reads) == <<"assign", target, reads>>
Ix(list, lib) == <<"index", list, lib>>
Rshp(from, to) == <<"reshape", from, to>>

\* keyword arguments each build_model signature accepts
Accepts(v) ==
    CASE v \in {"CMCombined_Final", "CMCombined_Final_DifDelays",
                "CMCombined_Final_NoNoise"} -> {"cm_prior", "conf_noise", "deaths_noise"}
      [] v \in {"CMDeath_Final", "CMActive_Final", "CMCombined_Final_DifEffects",
                "CMCombined_Final_ICL"} -> {"cm_prior"}
      [] OTHER -> {}

\* the value a keyword has in the body: the caller's, or the signature default
CmPrior(kw) == IF kw.cm_prior = "unset" THEN "normal" ELSE kw.cm_prior
ConfFixed(kw) == kw.conf_noise = "fixed"
DeathsFixed(kw) == kw.deaths_noise = "fixed"

\* PriorTwo with a final else branch that falls back to the normal prior
PriorTwo_Fallback(kw) ==
    IF CmPrior(kw) \in {"normal", "half_normal"} THEN <<Dn("CM_Alpha", {})>>
    ELSE <<Dn("CM_Alpha", {})>>

\* if cm_prior == 'normal': ...  if cm_prior == 'half_normal': ...
PriorTwo(kw) ==
    (IF CmPrior(kw) = "normal" THEN <<Dn("CM_Alpha", {})>> ELSE <<>>)
    \o (IF CmPrior(kw) = "half_normal" THEN <<Dn("CM_Alpha", {})>> ELSE <<>>)

\* CMCombined_Final adds: if cm_prior == 'icl': ...
PriorThree(kw) ==
    PriorTwo(kw)
    \o (IF CmPrior(kw) = "icl"
        THEN <<Dn("CM_Alpha_t", {}), Dn("CM_Alpha", {"CM_Alpha_t"})>> ELSE <<>>)

\* HyperRVar, RegionLogR_noise, RegionR (the non-centered baseline R)
NonCenteredR ==
    <<Dn("HyperRVar", {}),
      Dc("RegionLogR_noise", "RegionR_noise", {}),
      Dn("RegionR", {"RegionLogR_noise", "HyperRVar"})>>

\* HyperRMean, HyperRVar, RegionLogR (V3 and NoNoise)
HierarchicalLogR ==
    <<Dn("HyperRMean", {}), Dn("HyperRVar", {}),
      Dn("RegionLogR", {"HyperRMean", "HyperRVar"})>>

\* ActiveCMs, ActiveCMReduction, GrowthReduction
Reduction(coef) ==
    <<Dn("ActiveCMs", {}),
      As("ActiveCMReduction", {coef, "ActiveCMs"}),
      Dn("GrowthReduction", {"ActiveCMReduction"})>>

\* ExpectedLogR and ExpectedGrowth
LogRGrowth(r) ==
    <<Dn("ExpectedLogR", {r, "GrowthReduction"}),
      Dn("ExpectedGrowth", {"ExpectedLogR"})>>

\* InitialSize*_log, Infected*_log, Infected*, Expected* of one channel
Channel(ch, growth) ==
    <<Dn("InitialSize" \o ch \o "_log", {}),
      Dn("Infected" \o ch \o "_log", {"InitialSize" \o ch \o "_log", growth}),
      Dn("Infected" \o ch, {"Infected" \o ch \o "_log"}),
      Dn("Expected" \o ch, {"Infected" \o ch})>>

\* pm.NegativeBinomial(name, mu=Expected[list], alpha=self.Phi, observed=data[list])
Likelihood(name, target, expected, list) ==
    <<Ix(list, "theano"), Ix(list, "numpy"), Dc(name, target, {expected, "Phi"})>>

\* the same with alpha a constant supplied by the caller
LikelihoodFixed(name, expected, list) ==
    <<Ix(list, "theano"), Ix(list, "numpy"), Dn(name, {expected})>>

\* conf_noise / deaths_noise handling of CMCombined_Final
CasesNoiseBlock(kw) ==
    IF ~ConfFixed(kw)
    THEN <<Dc("Phi_1", "Phi", {})>>
         \o Likelihood("ObservedCases", "ObservedCases", "ExpectedCases",
                       "all_observed_active")
    ELSE LikelihoodFixed("ObservedCases", "ExpectedCases", "all_observed_active")

DeathsNoiseBlock(kw, sliced) ==
    IF ~DeathsFixed(kw)
    THEN (IF ConfFixed(kw) THEN <<Dc("Phi_1", "Phi", {})>> ELSE <<>>)
         \o Likelihood("ObservedDeaths", "ObservedDeaths", "ExpectedDeaths",
                       "all_observed_deaths")
    ELSE <<Ix("all_observed_deaths", "theano")>>
         \o (IF sliced
             THEN <<Rshp(nRs * (nDs - CMDelayCut), nRs * nDs)>> ELSE <<>>)
         \o <<Ix("all_observed_deaths", "numpy"), Dn("ObservedDeaths", {"ExpectedDeaths"})>>

Program_CMDeath_Final(kw) ==
    PriorTwo(kw) \o <<Dn("CMReduction", {"CM_Alpha"})>> \o NonCenteredR
    \o Reduction("CM_Alpha") \o LogRGrowth("RegionR")
    \o <<Dn("Growth", {"ExpectedGrowth"}),
         Dn("InitialSize_log", {}),
         Dn("Infected_log", {"InitialSize_log", "Growth"}),
         Dn("Infected", {"Infected_log"}),
         Dn("ExpectedDeaths", {"Infected"}),
         Dn("Phi", {}),
         Ix("observed_days", "numpy"), Dn("NewDeaths", {}),
         Ix("observed_days", "theano"),
         Dc("ObservedCases", "ObservedDeaths", {"ExpectedDeaths", "Phi", "NewDeaths"})>>

Program_CMActive_Final(kw) ==
    PriorTwo(kw) \o <<Dn("CMReduction", {"CM_Alpha"})>> \o NonCenteredR
    \o Reduction("CM_Alpha") \o LogRGrowth("RegionR")
    \o <<Dn("Growth", {"ExpectedGrowth"}),
         Dn("Z1", {"Growth", "ExpectedGrowth"}),
         Dn("InitialSize_log", {}),
         Dn("Infected_log", {"InitialSize_log", "Growth"}),
         Dn("Infected", {"Infected_log"}),
         Dn("ExpectedCases", {"Infected"}),
         Dn("Phi", {})>>
    \o Likelihood("ObservedCases", "ObservedCases", "ExpectedCases", "observed_days")

Program_CMCombined_Final(kw) ==
    PriorThree(kw) \o <<Dn("CMReduction", {"CM_Alpha"})>> \o NonCenteredR
    \o Reduction("CM_Alpha") \o LogRGrowth("RegionR")
    \o <<Dn("GrowthCasesNoise", {}), Dn("GrowthDeathsNoise", {}),
         Dn("GrowthCases", {"ExpectedGrowth", "GrowthCasesNoise"}),
         Dn("GrowthDeaths", {"ExpectedGrowth", "GrowthDeathsNoise"}),
         Dn("InitialSizeCases_log", {}),
         Dn("InfectedCases", {"InitialSizeCases_log", "GrowthCases"}),
         Dn("ExpectedCases", {"InfectedCases"})>>
    \o CasesNoiseBlock(kw)
    \o <<Dn("InitialSizeDeaths_log", {}),
         Dn("InfectedDeaths", {"InitialSizeDeaths_log", "GrowthDeaths"}),
         Dn("ExpectedDeaths", {"InfectedDeaths"})>>
    \o DeathsNoiseBlock(kw, TRUE)

Program_CMCombined_Final_DifDelays(kw) ==
    PriorTwo(kw) \o <<Dn("CMReduction", {"CM_Alpha"})>> \o NonCenteredR
    \o Reduction("CM_Alpha") \o LogRGrowth("RegionR")
    \o <<Dn("GrowthCases", {"ExpectedGrowth"}), Dn("GrowthDeaths", {"ExpectedGrowth"})>>
    \o Channel("Cases", "GrowthCases")
    \o CasesNoiseBlock(kw)
    \o <<Dn("Z2C", {"ObservedCases", "ExpectedCases"})>>
    \o Channel("Deaths", "GrowthDeaths")
    \o DeathsNoiseBlock(kw, FALSE)
    \o <<Dn("Z2D", {"ObservedDeaths", "ExpectedDeaths"})>>

Program_CMCombined_Final_V3(kw) ==
    <<Dn("CM_Alpha", {}), Dn("CMReduction", {"CM_Alpha"})>> \o HierarchicalLogR
    \o Reduction("CM_Alpha")
    \o <<Dn("ExpectedLogRCases", {"RegionLogR", "GrowthReduction"}),
         Dn("ExpectedLogRDeaths", {"RegionLogR", "GrowthReduction"}),
         Dn("GrowthCases", {"ExpectedLogRCases"}),
         Dn("GrowthDeaths", {"ExpectedLogRDeaths"})>>
    \o Channel("Cases", "GrowthCases")
    \o <<Dc("Phi_1", "Phi", {})>>
    \o Likelihood("ObservedCases", "ObservedCases", "ExpectedCases", "all_observed_active")
    \o <<Dn("Z2C", {"ObservedCases", "ExpectedCases"})>>
    \o Channel("Deaths", "GrowthDeaths")
    \o Likelihood("ObservedDeaths", "ObservedDeaths", "ExpectedDeaths",
                  "all_observed_deaths")
    \o <<Dn("Z2D", {"ObservedDeaths", "ExpectedDeaths"})>>

Program_CMCombined_Final_NoNoise(kw) ==
    PriorTwo(kw) \o <<Dn("CMReduction", {"CM_Alpha"})>> \o HierarchicalLogR
    \o Reduction("CM_Alpha") \o LogRGrowth("RegionLogR")
    \o <<Dn("GrowthCases", {"ExpectedGrowth"}),
         Dc("GrowthDeaths", "GrowthCases", {"ExpectedGrowth"})>>
    \o Channel("Cases", "GrowthCases")
    \o CasesNoiseBlock(kw)
    \o <<Dn("Z2C", {"ObservedCases", "ExpectedCases"})>>
    \o Channel("Deaths", "GrowthDeaths")
    \o DeathsNoiseBlock(kw, FALSE)
    \o <<Dn("Z2D", {"ObservedDeaths", "ExpectedDeaths"})>>

Program_CMCombined_Additive(kw) ==
    <<Dn("AllBeta", {}), Dn("CM_Beta", {"AllBeta"}), Dn("Beta_hat", {"AllBeta"}),
      Dn("CMReduction", {"CM_Beta"})>>
    \o NonCenteredR
    \o <<Dn("ActiveCMs", {}),
         As("ActiveCMReduction", {"CM_Beta", "ActiveCMs"}),
         Dn("GrowthReduction", {"ActiveCMReduction", "Beta_hat"})>>
    \o LogRGrowth("RegionR")
    \o <<Dn("GrowthCases", {"ExpectedGrowth"}), Dn("GrowthDeaths", {"ExpectedGrowth"})>>
    \o Channel("Cases", "GrowthCases")
    \o <<Dc("Phi_1", "Phi", {})>>
    \o Likelihood("ObservedCases", "ObservedCases", "ExpectedCases", "all_observed_active")
    \o Channel("Deaths", "GrowthDeaths")
    \o Likelihood("ObservedDeaths", "ObservedDeaths", "ExpectedDeaths",
                  "all_observed_deaths")

Program_CMCombined_Final_DifEffects(kw) ==
    PriorTwo(kw)
    \o <<Dn("CMReduction", {"CM_Alpha"}), Dn("AllCMAlpha", {"CM_Alpha"})>>
    \o NonCenteredR
    \o Reduction("AllCMAlpha") \o LogRGrowth("RegionR")
    \o <<Dn("GrowthCases", {"ExpectedGrowth"}), Dn("GrowthDeaths", {"ExpectedGrowth"})>>
    \o Channel("Cases", "GrowthCases")
    \o <<Dc("Phi_1", "Phi", {})>>
    \o Likelihood("ObservedCases", "ObservedCases", "ExpectedCases", "all_observed_active")
    \o Channel("Deaths", "GrowthDeaths")
    \o Likelihood("ObservedDeaths", "ObservedDeaths", "ExpectedDeaths",
                  "all_observed_deaths")

Program_CMCombined_Final_ICL(kw) ==
    PriorTwo(kw) \o <<Dn("CMReduction", {"CM_Alpha"})>> \o NonCenteredR
    \o Reduction("CM_Alpha") \o LogRGrowth("RegionR")
    \o <<Dn("LogR", {"ExpectedLogR"}),
         Dc("InitialSizeCases_log", "InitialSize_log", {}),
         Dc("InfectedCases", "InfectedDeaths", {"InitialSize_log", "LogR"}),
         Dn("InfectedDeaths", {"InitialSize_log", "LogR"}),
         Dn("ExpectedDeaths", {"InfectedDeaths"}),
         Dn("ExpectedCases", {"InfectedCases"}),
         Dn("Phi", {}),
         Rshp(nRs * (nDs - CMDelayCut), nRs * (nDs - CMDelayCut)),
         Ix("all_observed_active", "numpy"), Dn("NewCases", {}),
         Rshp(nRs * (nDs - CMDelayCut), nRs * (nDs - CMDelayCut)),
         Ix("all_observed_deaths", "numpy"), Dn("NewDeaths", {}),
         Ix("all_observed_deaths", "theano"),
         Dn("ObservedDeaths", {"ExpectedDeaths", "Phi", "NewDeaths"}),
         Ix("all_observed_active", "theano"),
         Dn("ObservedCases", {"ExpectedCases", "Phi", "NewCases"})>>

Program(v, kw) ==
    CASE v = "CMDeath_Final" -> Program_CMDeath_Final(kw)
      [] v = "CMActive_Final" -> Program_CMActive_Final(kw)
      [] v = "CMCombined_Final" -> Program_CMCombined_Final(kw)
      [] v = "CMCombined_Final_DifDelays" -> Program_CMCombined_Final_DifDelays(kw)
      [] v = "CMCombined_Final_V3" -> Program_CMCombined_Final_V3(kw)
      [] v = "CMCombined_Final_NoNoise" -> Program_CMCombined_Final_NoNoise(kw)
      [] v = "CMCombined_Additive" -> Program_CMCombined_Additive(kw)
      [] v = "CMCombined_Final_DifEffects" -> Program_CMCombined_Final_DifEffects(kw)
      [] v = "CMCombined_Final_ICL" -> Program_CMCombined_Final_ICL(kw)

\* np.array(observed): an empty Python list becomes a float64 array, a list of
\* ints an int64 array
IndexDtype(list) == IF Len(list) = 0 THEN "float64" ELSE "int64"

\* The exception one step raises in instance m, or "none".
\*  - reading an attribute that was never set: AttributeError
\*  - pm.X(name) with a name the model already holds: ValueError
\*  - indexing with a non-integer array: TypeError (theano), IndexError (numpy)
\*  - reshape to a different number of elements: ValueError
StepRaises(m, st) ==
    CASE st[1] = "decl" ->
            IF ~(st[4] \subseteq m.attrs) THEN "AttributeError"
            ELSE IF st[2] \in m.named_vars THEN "ValueError"
            ELSE "none"
      [] st[1] = "assign" ->
            IF ~(st[3] \subseteq m.attrs) THEN "AttributeError" ELSE "none"
      [] st[1] = "index" ->
            IF IndexDtype(m[st[2]]) = "int64" THEN "none"
            ELSE IF st[3] = "theano" THEN "TypeError" ELSE "IndexError"
      [] st[1] = "reshape" ->
            IF st[2] # st[3] THEN "ValueError" ELSE "none"

\* The instance after a step that did not raise.  A declared variable is added
\* to the model's named variables and becomes an attribute under its own name
\* and under the assigned name.
StepEffect(m, st) ==
    CASE st[1] = "decl" ->
            [m EXCEPT !.named_vars = @ \cup {st[2]}, !.attrs = @ \cup {st[2], st[3]}]
      [] st[1] = "assign" -> [m EXCEPT !.attrs = @ \cup {st[2]}]
      [] OTHER -> m

\* run the steps from the i-th on, stopping at the first that raises
RECURSIVE Exec(_, _, _)
Exec(m, prog, i) ==
    IF i > Len(prog) THEN [self |-> m, raised |-> "none"]
    ELSE LET e == StepRaises(m, prog[i])
         IN IF e # "none" THEN [self |-> m, raised |-> e]
            ELSE Exec(StepEffect(m, prog[i]), prog, i + 1)

\* the keywords the caller passes
Passed(kw) == {k \in {"cm_prior", "conf_noise", "deaths_noise"} : kw[k] # "unset"}

build_model(m, kw) ==
    IF ~(Passed(kw) \subseteq Accepts(m.variant))
    THEN [self |-> m, raised |-> "TypeError"]
    ELSE Exec(m, Program(m.variant, kw), 1)

(* ------------------ the declared quantities at one draw ---------------- *)
\* The value the graph built by build_model gives a deterministic quantity
\* for one draw of the free parameters.  Values are fixed-point integers:
\* RegionR in 1/100, logarithms and CM_Alpha in 1/1000.
Log == [x \in {100, 200, 325, 400} |->
          CASE x = 100 -> 0 [] x = 200 -> 693 [] x = 325 -> 1179 [] x = 400 -> 1386]

\* T.reshape(self.CM_Alpha, (1, self.nCMs, 1)): the same coefficients in every region
Shared(coef) == [r \in Rs |-> coef]

\* coef * self.ActiveCMs[self.OR_indxs, :, first:], elementwise
ActiveCMReduction(coef, active, first) ==
    [r \in Rs |-> [c \in CMIndx |->
        [d \in 0 .. (nDs - first - 1) |-> coef[r][c] * active[r][c][first + d]]]]

RECURSIVE SumCMs(_, _)
SumCMs(col, n) == IF n = 0 THEN 0 ELSE col[n - 1] + SumCMs(col, n - 1)

\* T.sum(self.ActiveCMReduction, axis=1)
GrowthReduction(acr) ==
    [r \in Rs |-> [d \in DOMAIN acr[r][0] |->
        SumCMs([c \in CMIndx |-> acr[r][c][d]], nCMs)]]

\* ExpectedLogR with the reduction added to log R instead of subtracted
ExpectedLogR_Added(m, dt, th) ==
    LET gr == GrowthReduction(ActiveCMReduction(Shared(th.CM_Alpha), dt.ActiveCMs, 0))
    IN [r \in Rs |-> [d \in DOMAIN gr[r] |-> ActiveUnit * Log[th.RegionR[r]] + gr[r][d]]]

\* self.ExpectedLogR of the classes that declare it as log R minus
\* GrowthReduction, in 1/(1000 * ActiveUnit)
ExpectedLogR(m, dt, th) ==
    LET v == m.variant
        coef == IF v = "CMCombined_Final_DifEffects" THEN th.AllCMAlpha
                ELSE Shared(th.CM_Alpha)
        first == IF v = "CMCombined_Final_ICL" THEN CMDelayCut ELSE 0
        gr == GrowthReduction(ActiveCMReduction(coef, dt.ActiveCMs, first))
        logR == IF v = "CMCombined_Final_NoNoise" THEN th.RegionLogR
                ELSE [r \in Rs |-> Log[th.RegionR[r]]]
        grid == [r \in Rs |-> [d \in DOMAIN gr[r] |-> ActiveUnit * logR[r] - gr[r][d]]]
    IN IF v = "CMCombined_Final_ICL" THEN [ch \in 0 .. 1 |-> grid] ELSE grid

\* pm.math.exp on the logarithms that draws take here (1/1000), in units
Exp == [x \in {0, 693, 1386} |-> CASE x = 0 -> 1 [] x = 693 -> 2 [] x = 1386 -> 4]

\* pm.math.sum(..., axis=2) over the n entries v[0] .. v[n-1]
RECURSIVE Sum(_, _)
Sum(v, n) == IF n = 0 THEN 0 ELSE v[n - 1] + Sum(v, n - 1)

\* filter_size = self.SI.size, conv_padding = 7
filter_size == 30
conv_padding == 7

Channels == 0 .. 1

\* the serial interval left in its stored order
SI_rev_Forward(si) == si

\* self.SI[::-1]
SI_rev(si) == [j \in 0 .. (filter_size - 1) |-> si[filter_size - 1 - j]]

\* the seeds of both channels taken from the case channel's InitialSize_log
SeedWindow_Pooled(m, th) ==
    [ch \in Channels |-> [r \in Rs |->
        [pos \in 0 .. (m.nODs + filter_size - 1) |->
            IF pos >= filter_size - conv_padding /\ pos < filter_size
            THEN Exp[th.InitialSize_log[0][r]] ELSE 0]]]

\* infected = T.zeros(...) with exp(InitialSize_log) set on the conv_padding
\* positions before position filter_size
SeedWindow(m, th) ==
    [ch \in Channels |-> [r \in Rs |->
        [pos \in 0 .. (m.nODs + filter_size - 1) |->
            IF pos >= filter_size - conv_padding /\ pos < filter_size
            THEN Exp[th.InitialSize_log[ch][r]] ELSE 0]]]

\* T.set_subtensor(x[:, :, pos], val): the first n entries (channel-major) of
\* position pos of the regions' rows replaced by val
RECURSIVE set_subtensor(_, _, _, _)
set_subtensor(x, pos, val, n) ==
    IF n = 0 THEN x
    ELSE LET ch == (n - 1) \div nRs
             r == (n - 1) % nRs
             prev == set_subtensor(x, pos, val, n - 1)
         IN [prev EXCEPT ![ch][r][pos] = val[ch][r]]

\* RenewalDay reading R of the following day (of the last day on the last day)
RenewalDay_NextR(m, th, infected, d) ==
    LET dn == IF d + 1 < m.nODs THEN d + 1 ELSE d
        rev == SI_rev(th.SI)
        val(ch, r) ==
            LET terms == [j \in 0 .. (filter_size - 1) |->
                            Exp[th.LogR[ch][r][dn]] * infected[ch][r][d + j] * rev[j]]
            IN Sum(terms, filter_size)
    IN set_subtensor(infected, d + filter_size,
                     [ch \in Channels |-> [r \in Rs |-> val(ch, r)]], 2 * nRs)

\* one pass of the loop body:
\*   val = sum(R[:, :, d] * infected[:, :, d:(d + SI.size)] * SI_rev, axis=2)
\*   infected = set_subtensor(infected[:, :, d + SI.size], val)
RenewalDay(m, th, infected, d) ==
    LET rev == SI_rev(th.SI)
        val(ch, r) ==
            LET terms == [j \in 0 .. (filter_size - 1) |->
                            Exp[th.LogR[ch][r][d]] * infected[ch][r][d + j] * rev[j]]
            IN Sum(terms, filter_size)
    IN set_subtensor(infected, d + filter_size,
                     [ch \in Channels |-> [r \in Rs |-> val(ch, r)]], 2 * nRs)

\* for d in range(self.nODs): ...
RECURSIVE RenewalLoop(_, _, _, _)
RenewalLoop(m, th, infected, d) ==
    IF d >= m.nODs THEN infected
    ELSE LET next == RenewalDay(m, th, infected, d)
         IN IF DOMAIN next = Channels   \* set_subtensor keeps the shape
            THEN RenewalLoop(m, th, next, d + 1)
            ELSE next

\* res[ch, :, self.SI.size:]: InfectedCases (ch = 0) and InfectedDeaths (ch = 1)
Infected(m, th) ==
    LET res == RenewalLoop(m, th, SeedWindow(m, th), 0)
    IN [ch \in Channels |-> [r \in Rs |->
          [d \in 0 .. (m.nODs - 1) |-> res[ch][r][filter_size + d]]]]

\* self.DelayProbCases.size and self.DelayProbDeaths.size
DelayProbCases_size == 32
DelayProbDeaths_size == 64

\* classes that convolve the two-dimensional InfectedCases and InfectedDeaths
\* with one kernel each and keep the columns [:, :nDs]
DelayConv == {"CMCombined_Final", "CMCombined_Final_V3", "CMCombined_Final_NoNoise",
              "CMCombined_Additive", "CMCombined_Final_DifEffects"}

\* a cross-correlation, the kernel not flipped against the days
conv2d_Correlate(X, cols, kernel, L) ==
    [r \in DOMAIN X |-> [n \in 0 .. (cols + L - 2) |->
        LET terms == [i \in 0 .. (cols - 1) |->
                        IF n - i >= 0 /\ n - i < L
                        THEN X[r][i] * kernel[L - 1 - (n - i)] ELSE 0]
        IN Sum(terms, cols)]]

\* C.conv2d(X, np.reshape(kernel, (1, L)), border_mode="full") of an image X of
\* cols columns: cols + L - 1 columns, column n the sum of X[r, i] * kernel[n - i]
conv2d(X, cols, kernel, L) ==
    [r \in DOMAIN X |-> [n \in 0 .. (cols + L - 2) |->
        LET terms == [i \in 0 .. (cols - 1) |->
                        IF n - i >= 0 /\ n - i < L THEN X[r][i] * kernel[n - i] ELSE 0]
        IN Sum(terms, cols)]]

\* the convolution cut off at a ceiling
Expected_Clipped(m, X, kernel, L) ==
    LET full == conv2d(X, nDs, kernel, L)
    IN [r \in DOMAIN X |-> [d \in 0 .. (nDs - 1) |->
          IF full[r][d] > 50 THEN 50 ELSE full[r][d]]]

\* expected_cases / expected_deaths: conv2d(...)[:, :nDs]
Expected(m, X, kernel, L) ==
    LET full == conv2d(X, nDs, kernel, L)
    IN [r \in DOMAIN X |-> [d \in 0 .. (nDs - 1) |-> full[r][d]]]

\* a kernel attribute (entry i the weight of delay i - 1) as the filter
\* conv2d indexes by the delay
Filter(attr) == [k \in 0 .. (Len(attr) - 1) |-> attr[k + 1]]

\* CMCombined_Final_DifDelays: expected_cases[j] is the convolution with row j
\* of the stacked self.DelayProbCases; expected_cases_temp starts as
\* T.zeros_like(self.InfectedCases) and receives rows short_rs of
\* expected_cases[0] and rows long_rs of expected_cases[1]
ExpectedCases_DifDelays(m, X) ==
    LET expected_cases ==
            <<Expected(m, X, Filter(m.kernels.DelayProbCases_0), DelayProbCases_size),
              Expected(m, X, Filter(m.kernels.DelayProbCases_1), DelayProbCases_size)>>
        zeros == [r \in DOMAIN X |-> [d \in 0 .. (nDs - 1) |-> 0]]
        short == [r \in DOMAIN X |->
                    IF r \in m.short_rs THEN expected_cases[1][r] ELSE zeros[r]]
    IN [r \in DOMAIN X |-> IF r \in m.long_rs THEN expected_cases[2][r] ELSE short[r]]

\* T.exp on arguments in 1/1000, result in 1/1000
ExpMilli == [x \in {-1386, -693, 0, 693} |->
               CASE x = -1386 -> 250 [] x = -693 -> 500 [] x = 0 -> 1000 [] x = 693 -> 2000]

\* self.AllBeta[1:]
CM_Beta(th) == [c \in CMIndx |-> th.AllBeta[c + 1]]

\* the deterministic "CMReduction": T.exp((-1.0) * self.CM_Alpha), and
\* self.CM_Beta in CMCombined_Additive; in 1/1000
CMReduction(m, th) ==
    IF m.variant = "CMCombined_Additive" THEN CM_Beta(th)
    ELSE [c \in CMIndx |-> ExpMilli[(-1) * th.CM_Alpha[c]]]

\* the additive reduction taken over the active share of each NPI
ActiveCMReduction_Additive_Active(beta, active) ==
    [r \in Rs |-> [c \in CMIndx |->
        [d \in Ds |-> beta[c] * active[r][c][d]]]]

\* CMCombined_Additive: T.reshape(self.CM_Beta, (1, self.nCMs, 1))
\* * (T.ones_like(self.ActiveCMs[...]) - self.ActiveCMs[...]), in
\* 1/(1000 * ActiveUnit)
ActiveCMReduction_Additive(beta, active) ==
    [r \in Rs |-> [c \in CMIndx |->
        [d \in Ds |-> beta[c] * (ActiveUnit - active[r][c][d])]]]

\* CMCombined_Additive: T.sum(self.ActiveCMReduction, axis=1) + self.Beta_hat
GrowthReduction_Additive(dt, th) ==
    LET sum == GrowthReduction(ActiveCMReduction_Additive(CM_Beta(th), dt.ActiveCMs))
    IN [r \in Rs |-> [d \in Ds |-> sum[r][d] + ActiveUnit * th.AllBeta[0]]]

\* CMCombined_Additive: the argument of the T.log of ExpectedLogR,
\* T.exp(T.reshape(pm.math.log(self.RegionR), (self.nORs, 1))) * self.GrowthReduction,
\* in 1/(1000 * ActiveUnit)
ExpLogR_Additive(dt, th) ==
    LET gr == GrowthReduction_Additive(dt, th)
    IN [r \in Rs |-> [d \in Ds |-> Exp[Log[th.RegionR[r]]] * gr[r][d]]]

\* the default of build_model's R_hyperprior_mean (3.25), in 1/100
R_hyperprior_mean == 325

\* the deterministic "RegionR": R_hyperprior_mean + self.RegionLogR_noise *
\* self.HyperRVar, in 1/100; the noise and HyperRVar are in 1/10
RegionR(noise, HyperRVar) == [r \in Rs |-> R_hyperprior_mean + noise[r] * HyperRVar]

\* pm.math.log of a float64, as a float class: finite for a positive
\* argument, -Inf at 0 and NaN below
LogFloat(x) == IF x > 0 THEN "fin" ELSE IF x = 0 THEN "-inf" ELSE "nan"

\* Floating-point overflow.  A float64 value is "fin" (finite), "inf" or "nan".
\* pm.math.exp(x) is finite up to x = 709 and +Inf from 710 on.
ExpMax == 709

\* X.cumsum(axis=1)
cumsum(X) == [r \in DOMAIN X |-> [d \in DOMAIN X[r] |-> Sum(X[r], d + 1)]]

\* pm.math.exp(InitialSize_log + Growth.cumsum(axis=1)), as a float class
InfectedFloat(InitialSize_log, Growth) ==
    LET acc == cumsum(Growth)
    IN [r \in Rs |-> [d \in Ds |->
          IF InitialSize_log[r] + acc[r][d] > ExpMax THEN "inf" ELSE "fin"]]

\* x * w for a kernel weight w >= 0: Inf * 0.0 is NaN
TimesWeight(x, w) ==
    IF x = "fin" THEN "fin"
    ELSE IF x = "nan" \/ w = 0 THEN "nan"
    ELSE "inf"

\* conv2d(...)[:, :self.nDs] on float classes; kernel is a sequence whose
\* entry k + 1 is the weight of delay k.  A sum of finite terms weighted by a
\* kernel that sums to 1 stays finite.
ExpectedFloat(X, kernel) ==
    [r \in DOMAIN X |-> [d \in Ds |->
        LET top == IF d < Len(kernel) - 1 THEN d ELSE Len(kernel) - 1
            terms == {TimesWeight(X[r][d - k], kernel[k + 1]) : k \in 0 .. top}
        IN IF "nan" \in terms THEN "nan"
           ELSE IF "inf" \in terms THEN "inf"
           ELSE "fin"]]

\* produce_CIs.  The argument (data in the source) is a sequence of draws, each a function of the time
\* point; the results are in 1/1000 of the unit of the draws.
Times == 0 .. 1

\* data[:, t] in the order of the draws
Column(arr, t) == [i \in 1 .. Len(arr) |-> arr[i][t]]

\* the arithmetic mean, rounded down
median_Mean(col) == (1000 * Sum([i \in 0 .. (Len(col) - 1) |-> col[i + 1]], Len(col))) \div Len(col)

\* np.median: the middle value of the sorted copy, or the mean of the two
\* middle values
median(col) ==
    LET sorted == SortSeq(col, LAMBDA a, b : a < b)
        n == Len(col)
    IN IF n % 2 = 1 THEN 1000 * sorted[(n + 1) \div 2]
       ELSE 500 * (sorted[n \div 2] + sorted[n \div 2 + 1])

\* np.percentile(col, q / 10) with linear interpolation: the virtual index is
\* (n - 1) * q / 1000, the result sorted[lo] + frac * (sorted[lo + 1] - sorted[lo])
percentile(col, q) ==
    LET sorted == SortSeq(col, LAMBDA a, b : a < b)
        pos == (Len(col) - 1) * q
        lo == pos \div 1000
        frac == pos % 1000
        hi == IF frac = 0 THEN lo ELSE lo + 1
    IN 1000 * sorted[lo + 1] + frac * (sorted[hi + 1] - sorted[lo + 1])

\* means, li, ui, err per time point, and the array the caller passed as the
\* call leaves it (np.median and np.percentile work on copies)
produce_CIs(arr) ==
    LET means == [t \in Times |-> median(Column(arr, t))]
        li == [t \in Times |-> percentile(Column(arr, t), 25)]
        ui == [t \in Times |-> percentile(Column(arr, t), 975)]
    IN [means |-> means, li |-> li, ui |-> ui,
        err |-> <<[t \in Times |-> means[t] - li[t]], [t \in Times |-> ui[t] - means[t]]>>,
        data |-> arr]

(* ------------------------------ actions -------------------------------- *)
\* no quantity has been evaluated
NoCalc == [op |-> "none"]

\* What the caller saw of the last call: the operation, the keywords passed
\* to it, the exception it raised (if any), whether it produced output, and
\* for a constructor whether the instance it replaces is of the same class
\* (the constructor then ran on the dataset that class's previous run left).
NoKw == [cm_prior |-> "unset", conf_noise |-> "unset", deaths_noise |-> "unset"]

\* no call of pm.sample was made
NoCall == <<>>

Returned(op) ==
    [op |-> op, kw |-> NoKw, raised |-> "none", output |-> FALSE, again |-> FALSE,
     kwargs |-> {}, sample |-> NoCall]

\* model = Variant(data): the caller rebinds its model variable
Construct(res) ==
    /\ data' = res.d
    /\ self' = res.self
    /\ last' = [Returned("__init__") EXCEPT !.again = (self.variant = res.self.variant)]
    /\ UNCHANGED <<raw, calc>>

NewCMDeath_Final == Construct(CMDeath_Final_init(data))
NewCMActive_Final == Construct(CMActive_Final_init(data))
NewCMCombined_Final == Construct(CMCombined_Final_init(data))
NewCMCombined_Final_DifDelays == Construct(CMCombined_Final_DifDelays_init(data))
NewCMCombined_Final_V3 == Construct(CMCombined_Final_V3_init(data))
NewCMCombined_Final_NoNoise == Construct(CMCombined_Final_NoNoise_init(data))
NewCMCombined_Additive == Construct(CMCombined_Additive_init(data))
NewCMCombined_Final_DifEffects == Construct(CMCombined_Final_DifEffects_init(data))
NewCMCombined_Final_ICL == Construct(CMCombined_Final_ICL_init(data))

NextConstruct ==
    \/ NewCMDeath_Final
    \/ NewCMActive_Final
    \/ NewCMCombined_Final
    \/ NewCMCombined_Final_DifDelays
    \/ NewCMCombined_Final_V3
    \/ NewCMCombined_Final_NoNoise
    \/ NewCMCombined_Additive
    \/ NewCMCombined_Final_DifEffects
    \/ NewCMCombined_Final_ICL

\* kwargs a caller may pass to build_model
BuildKwargs ==
    {[NoKw EXCEPT !.cm_prior = p] : p \in {"unset", "normal", "half_normal", "icl", "skewed"}}
    \cup {[NoKw EXCEPT !.conf_noise = c, !.deaths_noise = d] :
             c \in {"unset", "fixed"}, d \in {"unset", "fixed"}}

BuildModel ==
    /\ self.variant # "none"
    /\ \E kw \in BuildKwargs :
          LET res == build_model(self, kw)
          IN /\ self' = res.self
             /\ last' = [Returned("build_model") EXCEPT !.kw = kw, !.raised = res.raised]
    /\ UNCHANGED <<data, raw, calc>>

\* keyword arguments that run itself passes to pm.sample, with their values
RunFixed == [init |-> "jitter+adapt_diag", target_accept |-> "0.8", max_treedepth |-> "12"]
RunFixes == DOMAIN RunFixed

\* the keyword options of pm.sample(N, ..., init="jitter+adapt_diag",
\* target_accept=0.8, max_treedepth=12, **kwargs) when no keyword is repeated
SampleCall(kwargs) ==
    [k \in RunFixes \cup kwargs |-> IF k \in kwargs THEN "caller" ELSE RunFixed[k]]

\* **kwargs a caller may pass to run
RunKwargs == {{}, {"tune"}, {"target_accept"}, {"max_treedepth"}}

\* run: a keyword passed twice is a TypeError at the call of pm.sample; else
\* the inference engine returns a trace or raises
Run ==
    /\ self.variant # "none"
    /\ \E kwargs \in RunKwargs, sampled \in BOOLEAN :
          IF kwargs \cap RunFixes # {}
          THEN /\ last' = [Returned("run") EXCEPT !.raised = "TypeError",
                                                  !.kwargs = kwargs]
               /\ UNCHANGED self
          ELSE IF sampled
          THEN /\ self' = [self EXCEPT !.trace = TRUE]
               /\ last' = [Returned("run") EXCEPT !.kwargs = kwargs,
                                                  !.sample = SampleCall(kwargs)]
          ELSE /\ last' = [Returned("run") EXCEPT !.raised = "SamplingError",
                                                  !.kwargs = kwargs,
                                                  !.sample = SampleCall(kwargs)]
               /\ UNCHANGED self
    /\ UNCHANGED <<data, raw, calc>>

\* which classes define each summarization method
Defines(v, op) ==
    CASE op \in {"plot_traces", "plot_effect"} -> TRUE
      [] op = "plot_region_predictions" -> v # "CMCombined_Final_ICL"
      [] op = "plot_subset_region_predictions" ->
            v \in {"CMCombined_Final", "CMCombined_Final_DifDelays",
                   "CMCombined_Final_V3", "CMCombined_Final_NoNoise",
                   "CMCombined_Additive", "CMCombined_Final_DifEffects"}

\* Plot without the assertion on self.trace
Plot_NoAssert(op) ==
    /\ self.variant # "none"
    /\ last' = IF ~Defines(self.variant, op)
               THEN [Returned(op) EXCEPT !.raised = "AttributeError"]
               ELSE [Returned(op) EXCEPT !.output = TRUE]
    /\ UNCHANGED <<data, raw, self, calc>>

\* every plot method starts with: assert self.trace is not None
Plot(op) ==
    /\ self.variant # "none"
    /\ last' = IF ~Defines(self.variant, op)
               THEN [Returned(op) EXCEPT !.raised = "AttributeError"]
               ELSE IF self.trace = FALSE
               THEN [Returned(op) EXCEPT !.raised = "AssertionError"]
               ELSE [Returned(op) EXCEPT !.output = TRUE]
    /\ UNCHANGED <<data, raw, self, calc>>

plot_traces == Plot("plot_traces")
plot_effect == Plot("plot_effect")
plot_region_predictions == Plot("plot_region_predictions")
plot_subset_region_predictions == Plot("plot_subset_region_predictions")

NextLifecycle ==
    \/ BuildModel
    \/ Run
    \/ plot_traces
    \/ plot_effect
    \/ plot_region_predictions
    \/ plot_subset_region_predictions

\* The Eval actions compute a deterministic of the built model at one draw of
\* its free parameters.  They leave the model as it is, so each starts from the
\* built model with nothing evaluated yet.

\* one draw of the free parameters
Coefs(a, b) == [c \in CMIndx |-> IF c = 0 THEN a ELSE b]

Draws ==
    {[RegionR |-> rr,
      RegionLogR |-> [r \in Rs |-> Log[rr[r]]],
      CM_Alpha |-> al,
      AllCMAlpha |-> [r \in Rs |-> [c \in CMIndx |-> al[c] + 100 * r]]] :
        rr \in {[r \in Rs |-> IF r = 0 THEN a ELSE b] : a \in {325, 200}, b \in {325, 100}},
        al \in {Coefs(500, 0), Coefs(500, 250), Coefs(0, 0), Coefs(-200, 500)}}

\* the value of ExpectedLogR at a draw
EvalExpectedLogR ==
    /\ calc = NoCalc
    /\ "ExpectedLogR" \in self.named_vars
    /\ self.variant # "CMCombined_Additive"
    /\ \E th \in Draws :
          calc' = [op |-> "ExpectedLogR", th |-> th, out |-> ExpectedLogR(self, data, th)]
    /\ UNCHANGED <<data, raw, self, last>>

\* daily patterns of LogR
LogRPattern(k, d) ==
    CASE k = 0 -> 0
      [] k = 1 -> 693
      [] k = 2 -> IF d % 2 = 0 THEN 693 ELSE 0
      [] k = 3 -> IF d < 3 THEN 693 ELSE 0

\* serial intervals with integer weights: all weight on one lag, or spread
LagKernels ==
    {[j \in 0 .. (filter_size - 1) |-> IF j = lag - 1 THEN 1 ELSE 0] :
        lag \in {1, conv_padding, conv_padding + 1, filter_size}}
    \cup {[j \in 0 .. (filter_size - 1) |-> IF j \in {0, conv_padding} THEN 1 ELSE 0]}

\* draws of LogR and InitialSize_log, and the serial interval
RenewalDraws ==
    {[LogR |-> [ch \in Channels |-> [r \in Rs |->
                  [d \in 0 .. (nDs - CMDelayCut - 1) |-> LogRPattern((k + ch + r) % 4, d)]]],
      InitialSize_log |-> seed,
      SI |-> si] :
        k \in 0 .. 3,
        seed \in {[ch \in Channels |-> [r \in Rs |-> 0]],
                  [ch \in Channels |-> [r \in Rs |-> IF ch = 0 THEN 693 ELSE 1386]],
                  [ch \in Channels |-> [r \in Rs |-> IF r = 0 THEN 1386 ELSE 0]]},
        si \in LagKernels}

\* the values of InfectedCases and InfectedDeaths of the ICL class at a draw
EvalInfected ==
    /\ calc = NoCalc
    /\ self.variant = "CMCombined_Final_ICL"
    /\ "InfectedDeaths" \in self.named_vars
    /\ \E th \in RenewalDraws :
          calc' = [op |-> "Infected", th |-> th, out |-> Infected(self, th)]
    /\ UNCHANGED <<data, raw, self, last>>

\* infection curves with integer values
Curves ==
    {[r \in Rs |-> [d \in Ds |-> d + 1 + r]],
     [r \in Rs |-> [d \in Ds |-> IF d % 5 = r THEN 7 ELSE d % 3]],
     [r \in Rs |-> [d \in Ds |-> IF d = nDs - 1 THEN 9 ELSE 1]]}

\* delay kernels of length L with integer weights
DelayKernels(L) ==
    {[k \in 0 .. (L - 1) |-> k % 4],
     [k \in 0 .. (L - 1) |-> IF k = L - 1 THEN 1 ELSE 0],
     [k \in 0 .. (L - 1) |-> IF k = 0 THEN 0 ELSE 1]}

\* the values of ExpectedCases or ExpectedDeaths at given infection curves
EvalExpected ==
    /\ calc = NoCalc
    /\ self.variant \in DelayConv
    /\ "ExpectedDeaths" \in self.named_vars
    /\ \E channel \in {"Cases", "Deaths"} :
          LET L == IF channel = "Cases" THEN DelayProbCases_size ELSE DelayProbDeaths_size
          IN \E X \in Curves, kernel \in DelayKernels(L) :
                calc' = [op |-> "Expected", channel |-> channel, X |-> X,
                         kernel |-> kernel, L |-> L,
                         out |-> Expected(self, X, kernel, L)]
    /\ UNCHANGED <<data, raw, self, last>>

\* draws of the effect parameters: CM_Alpha where the class declares it, the
\* Dirichlet vector AllBeta (summing to 1000) in CMCombined_Additive
EffectDraws(m) ==
    IF m.variant = "CMCombined_Additive"
    THEN {[AllBeta |-> [i \in 0 .. nCMs |-> IF i = 0 THEN 1000 - a - b
                                            ELSE IF i = 1 THEN a ELSE b]] :
             a \in {100, 300, 500}, b \in {200, 400}}
    ELSE {[CM_Alpha |-> Coefs(a, b)] : a \in {0, 693, -693}, b \in {0, 1386}}

\* the value of CMReduction at a draw
EvalCMReduction ==
    /\ calc = NoCalc
    /\ "CMReduction" \in self.named_vars
    /\ \E th \in EffectDraws(self) :
          calc' = [op |-> "CMReduction", th |-> th, out |-> CMReduction(self, th)]
    /\ UNCHANGED <<data, raw, self, last>>

\* draws of AllBeta and of RegionR (1, 2 or 4, in 1/100) for CMCombined_Additive
AdditiveDraws ==
    {[AllBeta |-> e.AllBeta, RegionR |-> [r \in Rs |-> IF r = 0 THEN a ELSE b]] :
        e \in EffectDraws([variant |-> "CMCombined_Additive"]),
        a \in {100, 400}, b \in {200, 400}}

\* the values of GrowthReduction and of exp(ExpectedLogR) at a draw
EvalGrowthReduction ==
    /\ calc = NoCalc
    /\ self.variant = "CMCombined_Additive"
    /\ "GrowthReduction" \in self.named_vars
    /\ \E th \in AdditiveDraws :
          calc' = [op |-> "GrowthReduction", th |-> th,
                   out |-> GrowthReduction_Additive(data, th),
                   R |-> ExpLogR_Additive(data, th)]
    /\ UNCHANGED <<data, raw, self, last>>

\* infection curves of at most two infections a day, so that a convolution
\* with a kernel in units of 1/KernelUnit stays below 2^31
SmallCurves ==
    {[r \in Rs |-> [d \in Ds |-> 1]],
     [r \in Rs |-> [d \in Ds |-> (d + r) % 3]],
     [r \in Rs |-> [d \in Ds |-> IF d \in {0, r + 1} THEN 2 ELSE 0]]}

\* the values of ExpectedCases or ExpectedDeaths at given infection curves,
\* convolved with the kernel the constructor set
EvalExpectedDelay ==
    /\ calc = NoCalc
    /\ self.variant \in DelayConv
    /\ "ExpectedDeaths" \in self.named_vars
    /\ \E channel \in {"Cases", "Deaths"}, X \in SmallCurves :
          LET L == IF channel = "Cases" THEN DelayProbCases_size ELSE DelayProbDeaths_size
              kernel == Filter(IF channel = "Cases" THEN self.kernels.DelayProbCases
                               ELSE self.kernels.DelayProbDeaths)
          IN calc' = [op |-> "ExpectedDelay", channel |-> channel, X |-> X,
                      kernel |-> kernel, L |-> L,
                      out |-> Expected(self, X, kernel, L)]
    /\ UNCHANGED <<data, raw, self, last>>

\* draws of RegionLogR_noise ~ Normal(0, 1) per region and of
\* HyperRVar ~ HalfNormal(0.5), in 1/10
NoiseDraws ==
    {[noise |-> [r \in Rs |-> IF r = 0 THEN a ELSE b], HyperRVar |-> h] :
        a \in {-40, -10, 0, 20}, b \in {-20, 10}, h \in {0, 5, 10}}

\* the values of RegionR and of log(RegionR) at a draw
EvalRegionR ==
    /\ calc = NoCalc
    /\ "RegionR" \in self.named_vars
    /\ \E th \in NoiseDraws :
          LET R == RegionR(th.noise, th.HyperRVar)
          IN calc' = [op |-> "RegionR", th |-> th, out |-> R,
                      log |-> [r \in Rs |-> LogFloat(R[r])]]
    /\ UNCHANGED <<data, raw, self, last>>

\* draws of InitialSize*_log (per region) and of the daily Growth, in units
OverflowDraws ==
    {[InitialSize_log |-> [r \in Rs |-> IF r = 0 THEN a ELSE b],
      Growth |-> [r \in Rs |-> [d \in Ds |-> g]]] :
        a \in {0, ExpMax, ExpMax + 1}, b \in {0, -ExpMax}, g \in {-1, 0, 1, 20}}

\* whether ExpectedCases or ExpectedDeaths is finite in each cell at a draw
EvalExpectedFloat ==
    /\ calc = NoCalc
    /\ self.variant \in DelayConv
    /\ "ExpectedDeaths" \in self.named_vars
    /\ \E channel \in {"Cases", "Deaths"}, th \in OverflowDraws :
          LET kernel == IF channel = "Cases" THEN self.kernels.DelayProbCases
                        ELSE self.kernels.DelayProbDeaths
          IN calc' = [op |-> "ExpectedFloat", channel |-> channel, th |-> th,
                      out |-> ExpectedFloat(InfectedFloat(th.InitialSize_log, th.Growth),
                                            kernel)]
    /\ UNCHANGED <<data, raw, self, last>>

NextEval ==
    \/ EvalExpectedLogR
    \/ EvalInfected
    \/ EvalExpected
    \/ EvalCMReduction
    \/ EvalExpectedFloat
    \/ EvalGrowthReduction
    \/ EvalExpectedDelay
    \/ EvalRegionR

(* ------------------- reading a model's index lists -------------------- *)
Range(q) == {q[i] : i \in DOMAIN q}

\* variants whose lists index the (nRs * nDs)-flattened arrays
WithCaseList == {"CMActive_Final", "CMCombined_Final", "CMCombined_Final_DifDelays",
                 "CMCombined_Final_V3", "CMCombined_Final_NoNoise",
                 "CMCombined_Additive", "CMCombined_Final_DifEffects"}
WithDeathList == (WithCaseList \ {"CMActive_Final"}) \cup {"CMDeath_Final"}

\* the list a variant's likelihood reads for each channel
CaseList(m) ==
    IF m.variant = "CMActive_Final" THEN m.observed_days ELSE m.all_observed_active
DeathList(m) ==
    IF m.variant = "CMDeath_Final" THEN m.observed_days ELSE m.all_observed_deaths

HasCases(m) == m.variant \in WithCaseList \cup {"CMCombined_Final_ICL"}
HasDeaths(m) == m.variant \in WithDeathList \cup {"CMCombined_Final_ICL"}

\* the (region, calendar day) cell a flat index of model m stands for
CellOf(m, i) ==
    IF m.variant = "CMCombined_Final_ICL"
    THEN <<i \div m.nODs, CMDelayCut + (i % m.nODs)>>
    ELSE <<i \div nDs, i % nDs>>

\* X.reshape((rows * cols,))[i] of an array whose column 0 is calendar day
\* `first`: the (region, calendar day) cell the element comes from
Unflatten(cols, first, i) == <<i \div cols, first + (i % cols)>>

\* the observed array read at flat index i without the [:, self.CMDelayCut:]
\* slice
ObservedCell_Unsliced(m, i) == Unflatten(nDs, 0, i)

\* the cell of the observed count at flat index i:
\* self.d.NewX.data.reshape((self.nORs * self.nDs,))[i], and in the ICL class
\* self.d.NewX.data[:, self.CMDelayCut:].reshape((self.nORs * self.nODs,))[i]
ObservedCell(m, i) ==
    IF m.variant = "CMCombined_Final_ICL"
    THEN Unflatten(nDs - CMDelayCut, CMDelayCut, i)
    ELSE Unflatten(nDs, 0, i)

\* the cell of the expected count at flat index i:
\* self.ExpectedX.reshape((self.nORs * self.nDs,))[i]; in the ICL class
\* ExpectedX has nODs columns, the first of which is day CMDelayCut
\* (ActiveCMs[self.OR_indxs, :, self.CMDelayCut:])
MuCell(m, i) ==
    IF m.variant = "CMCombined_Final_ICL"
    THEN Unflatten(m.nODs, CMDelayCut, i)
    ELSE Unflatten(nDs, 0, i)

\* the terms of a likelihood over an index list: term k pairs mu[list[k]]
\* with observed[list[k]]
Terms(m, list) ==
    [k \in 1 .. Len(list) |-> [mu |-> MuCell(m, list[k]), observed |-> ObservedCell(m, list[k])]]

CaseCells(m) == {CellOf(m, i) : i \in Range(CaseList(m))}
DeathCells(m) == {CellOf(m, i) : i \in Range(DeathList(m))}

Unmasked(grid) == {c \in Rs \X Ds : grid[c[1]][c[2]] = FALSE}

Constructed == last.op = "__init__"

(* --------------------------- specifications ---------------------------- *)
InitCommon ==
    /\ raw = data
    /\ self = NoModel
    /\ last = Returned("load")
    /\ calc = NoCalc

\* the series of one region and the series shared by the other regions
Regions(first, rest) == [r \in Rs |-> IF r = 0 THEN first ELSE rest]

\* the case series and the death series are drawn independently of each other
Init ==
    /\ \E c0 \in SeriesProfiles, c1 \in SeriesProfiles,
          d0 \in SeriesProfiles, d1 \in SeriesProfiles :
          data = MakeData(Regions(c0, c1), Regions(d0, d1), StaggeredActive)
    /\ InitCommon

Next == NextConstruct

Spec == Init /\ [][Next]_vars

\* The life of model instances on datasets whose series are clean or fully
\* masked: construction, build_model, run and the summarization methods.
InitBuild ==
    /\ \E c \in {SeriesClean, SeriesMasked},
          d0 \in {SeriesClean, SeriesMasked}, d1 \in {SeriesClean, SeriesMasked} :
          data = MakeData(Regions(c, c), Regions(d0, d1), StaggeredActive)
    /\ InitCommon

NextBuild == NextConstruct \/ NextLifecycle

SpecBuild == InitBuild /\ [][NextBuild]_vars

\* The quantities of a model built with the defaults on a clean dataset.
Built(v) ==
    LET clean == MakeData(Regions(SeriesClean, SeriesClean),
                          Regions(SeriesClean, SeriesClean), StaggeredActive)
        made == CASE v = "CMDeath_Final" -> CMDeath_Final_init(clean)
                  [] v = "CMActive_Final" -> CMActive_Final_init(clean)
                  [] v = "CMCombined_Final" -> CMCombined_Final_init(clean)
                  [] v = "CMCombined_Final_DifDelays" -> CMCombined_Final_DifDelays_init(clean)
                  [] v = "CMCombined_Final_V3" -> CMCombined_Final_V3_init(clean)
                  [] v = "CMCombined_Final_NoNoise" -> CMCombined_Final_NoNoise_init(clean)
                  [] v = "CMCombined_Additive" -> CMCombined_Additive_init(clean)
                  [] v = "CMCombined_Final_DifEffects" -> CMCombined_Final_DifEffects_init(clean)
                  [] v = "CMCombined_Final_ICL" -> CMCombined_Final_ICL_init(clean)
        built == build_model(made.self, NoKw)
    IN [raw |-> clean, d |-> made.d, self |-> built.self, raised |-> built.raised]

InitEval ==
    \E v \in Variants :
        /\ raw = Built(v).raw
        /\ data = Built(v).d
        /\ self = Built(v).self
        /\ last = [Returned("build_model") EXCEPT !.raised = Built(v).raised]
        /\ calc = NoCalc

SpecEval == InitEval /\ [][NextEval]_vars

\* produce_CIs on arrays of 1 .. nDraws draws; no model is involved.
DrawValues == {-4, 0, 10}

EvalCIs ==
    /\ calc = NoCalc
    /\ \E n \in 1 .. nDraws :
          \E arr \in [1 .. n -> [Times -> DrawValues]] :
             calc' = [op |-> "produce_CIs", arr |-> arr, out |-> produce_CIs(arr)]
    /\ UNCHANGED <<data, raw, self, last>>

InitCIs ==
    /\ data = MakeData(Regions(SeriesClean, SeriesClean),
                       Regions(SeriesClean, SeriesClean), StaggeredActive)
    /\ InitCommon

NextCIs == EvalCIs

SpecCIs == InitCIs /\ [][NextCIs]_vars

(* ------------------------------ claims --------------------------------- *)

\* C1. Case live-set rule: when a constructor of a variant with an
\* nDs-flattened case list runs, the list holds exactly the indices r*nDs+d
\* of the cells whose input NewCases mask is false, with d > 30, Confirmed[r,d]
\* not NaN and d < nDs - 7.
C1_CaseLiveSetRule ==
    [][(last'.op = "__init__" /\ self'.variant \in WithCaseList) =>
        Range(CaseList(self')) =
           {c[1] * nDs + c[2] : c \in
               {x \in Rs \X Ds : /\ data.NewCases_mask[x[1]][x[2]] = FALSE
                                 /\ x[2] > 30
                                 /\ ~data.Confirmed_nan[x[1]][x[2]]
                                 /\ x[2] < nDs - 7}}]_vars

\* a case list that holds some but not all of the cells of the live window
C1_Witness ==
    /\ Constructed
    /\ self.variant \in {"CMCombined_Final", "CMActive_Final"}
    /\ Len(CaseList(self)) > 0
    /\ Len(CaseList(self)) < nRs * (nDs - 7 - 31)

\* C2. Death live-set rule: when a constructor of a variant with an
\* nDs-flattened death list runs, the list holds exactly the indices r*nDs+d
\* of the cells whose input NewDeaths mask is false, with d > 30 and
\* Deaths[r,d] not NaN; the trailing week is not excluded.
C2_DeathLiveSetRule ==
    [][(last'.op = "__init__" /\ self'.variant \in WithDeathList) =>
        Range(DeathList(self')) =
           {c[1] * nDs + c[2] : c \in
               {x \in Rs \X Ds : /\ data.NewDeaths_mask[x[1]][x[2]] = FALSE
                                 /\ x[2] > 30
                                 /\ ~data.Deaths_nan[x[1]][x[2]]}}]_vars

\* a death list that reaches into the trailing week and misses some cell
C2_Witness ==
    /\ Constructed
    /\ self.variant \in {"CMCombined_Final", "CMDeath_Final"}
    /\ (nRs - 1) * nDs + (nDs - 1) \in Range(DeathList(self))
    /\ Len(DeathList(self)) < nRs * (nDs - 31)

\* C3. Construction does not mutate the caller's dataset: the NewCases mask,
\* the NewDeaths mask and ActiveCMs are as they were loaded.
C3_DatasetUntouched ==
    self.variant # "none" =>
        /\ data.NewCases_mask = raw.NewCases_mask
        /\ data.NewDeaths_mask = raw.NewDeaths_mask
        /\ data.ActiveCMs = raw.ActiveCMs

\* C4. Mask idempotence: a constructor run on the dataset its own class's
\* previous run left behind computes the same lists and leaves the same masks.
C4_MaskIdempotent ==
    [][(last'.op = "__init__" /\ last'.again) =>
        /\ self'.all_observed_active = self.all_observed_active
        /\ self'.all_observed_deaths = self.all_observed_deaths
        /\ self'.observed_days = self.observed_days
        /\ data'.NewCases_mask = data.NewCases_mask
        /\ data'.NewDeaths_mask = data.NewDeaths_mask]_vars

\* a second run of a mask-mutating constructor that found live cells
C4_Witness ==
    /\ Constructed
    /\ last.again
    /\ self.variant \in {"CMCombined_Final", "CMCombined_Final_ICL"}
    /\ Len(self.all_observed_active) > 0
    /\ Len(self.all_observed_deaths) > 0
    /\ data.NewCases_mask # raw.NewCases_mask

\* C5. Encoding equivalence: after construction, for each channel the variant
\* has, the cells whose flag in the dataset's mask grid is false are exactly
\* the cells its flat index list decodes to.
C5_EncodingsAgree ==
    Constructed =>
        /\ HasCases(self) => Unmasked(data.NewCases_mask) = CaseCells(self)
        /\ HasDeaths(self) => Unmasked(data.NewDeaths_mask) = DeathCells(self)

\* C6. Common mask discipline: run on the dataset as loaded, every variant
\* selects the cells CMCombined_Final selects, channel by channel.
C6_CommonDiscipline ==
    [][(last'.op = "__init__" /\ data = raw) =>
        LET ref == CMCombined_Final_init(data).self IN
        /\ HasCases(self') => CaseCells(self') = CaseCells(ref)
        /\ HasDeaths(self') => DeathCells(self') = DeathCells(ref)]_vars

\* C8. Dual-delay partition: short_rs and long_rs are disjoint and cover
\* every region.
C8_DelayPartition ==
    (Constructed /\ self.variant = "CMCombined_Final_DifDelays") =>
        /\ self.short_rs \cap self.long_rs = {}
        /\ self.short_rs \cup self.long_rs = Rs

\* C7. Fully masked channel: a region whose NewDeaths series is masked on
\* every day contributes no index to the death list, and build_model called
\* with its defaults on the fresh instance completes without raising, also
\* when the death list is empty (the case list, if any, being non-empty).
C7_MaskedChannelBuilds ==
    [][/\ (last'.op = "__init__" /\ HasDeaths(self')) =>
            \A r \in Rs :
               (\A d \in Ds : data.NewDeaths_mask[r][d]) =>
                  (\A c \in DeathCells(self') : c[1] # r)
       /\ (/\ last'.op = "build_model"
           /\ last'.kw = NoKw
           /\ HasDeaths(self)
           /\ self.named_vars = {}
           /\ HasCases(self) => Len(CaseList(self)) > 0)
          => last'.raised = "none"]_vars

PlotOps == {"plot_traces", "plot_effect", "plot_region_predictions",
            "plot_subset_region_predictions"}

\* the cm_prior strings each build_model tests for
Recognised(v, p) ==
    CASE v = "CMCombined_Final" -> p \in {"normal", "half_normal", "icl"}
      [] v \in {"CMCombined_Final_V3", "CMCombined_Additive"} -> FALSE
      [] OTHER -> p \in {"normal", "half_normal"}

C9_WitnessLeftover ==
    /\ last.op = "build_model"
    /\ last.kw.cm_prior = "skewed"
    /\ "CM_Alpha" \in self.attrs
    /\ last.raised # "none"

\* C10. Lifecycle ordering: a new instance has no trace, only a run that
\* returns attaches one, and a summarization method the class defines,
\* called while the trace is absent, fails its assertion and produces no
\* output.
C10_TraceLifecycle ==
    [][/\ last'.op = "__init__" => self'.trace = FALSE
       /\ (self.trace = FALSE /\ self'.trace = TRUE) =>
             (last'.op = "run" /\ last'.raised = "none")
       /\ (/\ last'.op \in PlotOps
           /\ Defines(self.variant, last'.op)
           /\ self.trace = FALSE)
          => (last'.raised = "AssertionError" /\ last'.output = FALSE)]_vars

\* a built but unfitted model whose plot call failed its assertion
C10_Witness ==
    /\ last.op = "plot_region_predictions"
    /\ last.raised = "AssertionError"
    /\ "ObservedDeaths" \in self.named_vars
    /\ self.trace = FALSE

\* C11. Repeatable build: constructing a class again from the dataset object
\* its previous construction was given yields the same index lists, the same
\* short_rs / long_rs classification and the same ActiveCMs values.
C11_RepeatableBuild ==
    [][(last'.op = "__init__" /\ last'.again) =>
        /\ self'.all_observed_active = self.all_observed_active
        /\ self'.all_observed_deaths = self.all_observed_deaths
        /\ self'.observed_days = self.observed_days
        /\ self'.short_rs = self.short_rs
        /\ self'.long_rs = self.long_rs
        /\ data'.ActiveCMs = data.ActiveCMs]_vars

\* the classes with one effect coefficient per NPI shared by all regions and
\* a deterministic ExpectedLogR
SharedEffect == {"CMDeath_Final", "CMActive_Final", "CMCombined_Final",
                 "CMCombined_Final_NoNoise"}

\* C12. Log-linear effect composition: in the shared-effect classes
\* ExpectedLogR[r,d] = log(RegionR[r]) - sum over NPIs of
\* CM_Alpha[npi] * ActiveCMs[r,npi,d]; with one effective NPI active from day
\* 31 on, CM_Alpha = 0.5 and RegionR = 3.25 it is log(3.25) before day 31 and
\* log(3.25) - 0.5 from day 31 on.
C12_LogLinearEffect ==
    (calc.op = "ExpectedLogR" /\ self.variant \in SharedEffect) =>
        \A r \in Rs, d \in Ds :
            /\ calc.out[r][d] =
                  ActiveUnit * Log[calc.th.RegionR[r]]
                  - (calc.th.CM_Alpha[0] * data.ActiveCMs[r][0][d]
                     + calc.th.CM_Alpha[1] * data.ActiveCMs[r][1][d])
            /\ (calc.th.CM_Alpha = Coefs(500, 0) /\ calc.th.RegionR[r] = 325) =>
                  calc.out[r][d] = IF d < 31 THEN ActiveUnit * 1179
                                   ELSE ActiveUnit * (1179 - 500)

\* the draw CM_Alpha = (0.5, 0), RegionR = 3.25 evaluated in CMCombined_Final
C12_Witness ==
    /\ calc.op = "ExpectedLogR"
    /\ self.variant = "CMCombined_Final"
    /\ calc.th.CM_Alpha = Coefs(500, 0)
    /\ calc.th.RegionR[0] = 325
    /\ calc.out[0][30] - calc.out[0][31] = ActiveUnit * 500

\* LogR with the entry of one channel, region and day replaced
LogRAt(logR, ch, r, d, x) == [logR EXCEPT ![ch][r][d] = x]

\* LogR with every entry from day d on replaced
LogRFrom(logR, d, x) ==
    [ch \in Channels |-> [r \in Rs |->
        [e \in DOMAIN logR[ch][r] |-> IF e >= d THEN x ELSE logR[ch][r][e]]]]

\* C13. Renewal recursion causality (ICL): a run whose R differs from the
\* evaluated one only on day d (in one channel and region, where log R is
\* switched between 0 and 0.693), or only from day d on, and whose seeds are
\* the same, computes the same Infected on every day before d.
C13_RenewalCausality ==
    calc.op = "Infected" =>
        \A d \in 0 .. (self.nODs - 1) :
            \A other \in {LogRAt(calc.th.LogR, ch, r, d, 693 - calc.th.LogR[ch][r][d]) :
                              ch \in Channels, r \in Rs}
                         \cup {LogRFrom(calc.th.LogR, d, x) : x \in {0, 693}} :
                LET out2 == Infected(self, [calc.th EXCEPT !.LogR = other])
                IN \A ch \in Channels, r \in Rs, e \in 0 .. (d - 1) :
                      out2[ch][r][e] = calc.out[ch][r][e]

\* a run in which R matters: doubling R on day 0 changes Infected on day 0
C13_Witness ==
    /\ calc.op = "Infected"
    /\ calc.th.LogR[0][0][0] = 0
    /\ calc.out[0][0][0] > 0
    /\ Infected(self, [calc.th EXCEPT !.LogR = LogRAt(calc.th.LogR, 0, 0, 0, 693)])[0][0][0]
          = 2 * calc.out[0][0][0]

\* C14. Renewal recursion value (ICL): Infected[d] = R[d] * sum for k = 1..|SI|
\* of Infected[d-k] * SI[k], where the 7 positions before day 0 hold
\* exp(InitialSize_log) of the channel and region and earlier positions hold 0.
C14_RenewalValue ==
    calc.op = "Infected" =>
        \A ch \in Channels, r \in Rs, d \in 0 .. (self.nODs - 1) :
            LET past(i) == IF i >= 0 THEN calc.out[ch][r][i]
                           ELSE IF i >= -7 THEN Exp[calc.th.InitialSize_log[ch][r]]
                           ELSE 0
                terms == [k0 \in 0 .. 29 |-> past(d - (k0 + 1)) * calc.th.SI[k0]]
            IN calc.out[ch][r][d] = Exp[calc.th.LogR[ch][r][d]] * Sum(terms, 30)

\* a run whose serial interval reaches past the seed window (lag 8) and one
\* whose days feed back on later days (lag 1)
C14_Witness ==
    /\ calc.op = "Infected"
    /\ calc.th.SI[0] = 1
    /\ calc.th.SI[7] = 1
    /\ calc.th.InitialSize_log[1][0] = 1386
    /\ calc.out[1][0][self.nODs - 1] > calc.out[1][0][0]

\* the infection curve X with the value of one day replaced in every region
CurveAt(X, e, x) == [r \in DOMAIN X |-> [X[r] EXCEPT ![e] = x]]

\* C15. Delay convolution: Expected[r, d] is the sum for k = 0 .. min(d, L-1)
\* of Infected[r, d-k] * kernel[k]; the output has exactly the days 0 .. nDs-1;
\* and replacing Infected on a day e leaves Expected unchanged on every day
\* before e.
C15_DelayConvolution ==
    calc.op = "Expected" =>
        /\ \A r \in Rs :
              /\ DOMAIN calc.out[r] = 0 .. (nDs - 1)
              /\ \A d \in 0 .. (nDs - 1) :
                    LET top == IF d < calc.L - 1 THEN d ELSE calc.L - 1
                        terms == [k \in 0 .. top |-> calc.X[r][d - k] * calc.kernel[k]]
                    IN calc.out[r][d] = Sum(terms, top + 1)
        /\ \A e \in {1, calc.L - 1, nDs - 1} \cap (0 .. (nDs - 1)) :
              LET out2 == Expected(self, CurveAt(calc.X, e, 100), calc.kernel, calc.L)
              IN \A r \in Rs, d \in 0 .. (e - 1) : out2[r][d] = calc.out[r][d]

\* a kernel shorter than the period, with weight on several lags, gives on the
\* last day a sum cut at the kernel length: the last kernel entry meets the
\* infections of day nDs - L
C15_Witness ==
    /\ calc.op = "Expected"
    /\ calc.L < nDs
    /\ calc.kernel[1] > 0
    /\ calc.kernel[calc.L - 1] > 0
    /\ calc.X[0][nDs - calc.L] > 0
    /\ calc.out[0][nDs - 1] > calc.out[0][0]

\* a * X1 + b * X2, elementwise
Combine(a, X1, b, X2) ==
    [r \in DOMAIN X1 |-> [d \in DOMAIN X1[r] |-> a * X1[r][d] + b * X2[r][d]]]

\* pairs of scalars a, b: both signs, zero and one included
Scalars == {<<3, -1>>, <<1, 1>>, <<0, 2>>, <<-1, 0>>, <<-2, -3>>}

\* C16. Convolution linearity: with the kernel fixed, the delay convolution of
\* a * X1 + b * X2 equals a times that of X1 plus b times that of X2 on every
\* region and day.
C16_ConvolutionLinearity ==
    calc.op = "Expected" =>
        \A X2 \in Curves, ab \in Scalars :
            LET a == ab[1]
                b == ab[2]
                out2 == Expected(self, X2, calc.kernel, calc.L)
                both == Expected(self, Combine(a, calc.X, b, X2), calc.kernel, calc.L)
            IN \A r \in Rs, d \in Ds : both[r][d] = a * calc.out[r][d] + b * out2[r][d]

\* two different curves whose delayed values differ on the last day, combined
\* with the scalars 3 and -1
C16_Witness ==
    /\ calc.op = "Expected"
    /\ \E X2 \in Curves \ {calc.X} :
          LET out2 == Expected(self, X2, calc.kernel, calc.L)
              both == Expected(self, Combine(3, calc.X, -1, X2), calc.kernel, calc.L)
          IN /\ out2[0][nDs - 1] # calc.out[0][nDs - 1]
             /\ out2[0][nDs - 1] > 50
             /\ both[0][nDs - 1] = 3 * calc.out[0][nDs - 1] - out2[0][nDs - 1]

\* the sum of the first n entries of a kernel
RECURSIVE SumKernel(_, _)
SumKernel(k, n) == IF n = 0 THEN 0 ELSE k[n] + SumKernel(k, n - 1)

\* The literals are printed to 8 or 9 significant digits, so their sums miss 1
\* by up to 2 * 10^-8; the tolerance is 10^-7.
KernelTol == KernelUnit \div (10 ^ 7)

KernelValid(k) ==
    LET total == SumKernel(k, Len(k))
    IN /\ \A i \in DOMAIN k : k[i] >= 0
       /\ total - KernelUnit <= KernelTol
       /\ KernelUnit - total <= KernelTol

\* C17. Kernel validity: after a constructor each kernel the instance holds
\* (case, death, short-delay case, long-delay case, and the rows of the
\* stacked case kernel) has only non-negative entries that sum to 1 within
\* tolerance, and no operation other than a constructor changes a kernel; so
\* the kernels are valid after every operation and build_model never reads a
\* kernel that is not valid.
C17_KernelValidity ==
    [][IF last'.op = "__init__"
       THEN \A a \in DOMAIN self'.kernels : KernelValid(self'.kernels[a])
       ELSE self'.kernels = self.kernels]_vars

\* a dual-delay model, built, whose two case kernels differ and whose long
\* kernel does not sum to 1 exactly
C17_Witness ==
    /\ last.op = "build_model"
    /\ last.raised = "none"
    /\ "ExpectedCases" \in self.named_vars
    /\ "DelayProbCasesLong" \in DOMAIN self.kernels
    /\ self.kernels.DelayProbCases_0 # self.kernels.DelayProbCases_1
    /\ SumKernel(self.kernels.DelayProbCasesLong, 32) # KernelUnit
    /\ KernelValid(self.kernels.DelayProbCasesLong)

\* C18. CMReduction definition: in every variant that exposes CMReduction,
\* the model has CM_Alpha and CMReduction[npi] = exp(-CM_Alpha[npi]) for every
\* NPI.
C18_CMReductionDefinition ==
    calc.op = "CMReduction" =>
        /\ "CM_Alpha" \in self.named_vars
        /\ "CM_Alpha" \in DOMAIN calc.th
        /\ \A c \in CMIndx : calc.out[c] = ExpMilli[-calc.th.CM_Alpha[c]]

\* C19. Overflow clamping: for every draw, the expected count of every cell
\* that enters a likelihood term is finite (neither Inf nor NaN).
C19_OverflowClamped ==
    calc.op = "ExpectedFloat" =>
        LET list == IF calc.channel = "Cases" THEN CaseList(self) ELSE DeathList(self)
        IN \A i \in Range(list) : calc.out[CellOf(self, i)[1]][CellOf(self, i)[2]] = "fin"

\* C20. Sampler tuning passthrough: after run, every keyword option the caller
\* supplied (tune, target_accept, max_treedepth) is an option of the call of
\* pm.sample, with the caller's value.
C20_TuningPassthrough ==
    last.op = "run" =>
        \A k \in last.kwargs :
            /\ k \in DOMAIN last.sample
            /\ last.sample[k] = "caller"

\* the number of draws of a column below v / 1000, and at or below it
Below(col, v) == Cardinality({i \in DOMAIN col : 1000 * col[i] < v})
AtMost(col, v) == Cardinality({i \in DOMAIN col : 1000 * col[i] <= v})

\* v is a q/10-th percentile of col: at most q/1000 of the n - 1 steps lie
\* strictly below it and at least that many at or below it
IsPercentile(col, q, v) ==
    /\ 1000 * Below(col, v) <= (Len(col) - 1) * q + 999
    /\ 1000 * (AtMost(col, v) - 1) >= (Len(col) - 1) * q - 999

\* C21. Credible-interval helper: per time point produce_CIs returns the
\* median, the 2.5th and the 97.5th percentile of the draws with
\* lower <= median <= upper, the error pair is [median - lower, upper - median]
\* with both components non-negative, and the input array is unchanged.
C21_CredibleIntervals ==
    calc.op = "produce_CIs" =>
        /\ calc.out.data = calc.arr
        /\ \A t \in Times :
              LET col == Column(calc.arr, t)
                  o == calc.out
              IN /\ o.li[t] <= o.means[t] /\ o.means[t] <= o.ui[t]
                 /\ o.err[1][t] = o.means[t] - o.li[t]
                 /\ o.err[2][t] = o.ui[t] - o.means[t]
                 /\ o.err[1][t] >= 0 /\ o.err[2][t] >= 0
                 /\ IsPercentile(col, 25, o.li[t])
                 /\ IsPercentile(col, 975, o.ui[t])
                 /\ 2 * Below(col, o.means[t]) <= Len(col)
                 /\ 2 * AtMost(col, o.means[t]) >= Len(col)

\* three different draws at a time point: the percentiles are interpolated
\* and lie strictly on either side of the median
C21_Witness ==
    /\ calc.op = "produce_CIs"
    /\ Len(calc.arr) = 3
    /\ Cardinality({calc.arr[i][0] : i \in 1 .. 3}) = 3
    /\ calc.out.li[0] < calc.out.means[0]
    /\ calc.out.means[0] < calc.out.ui[0]
    /\ calc.out.li[0] % 1000 # 0

\* C22. Dispersion configuration: build_model on a fresh instance of a class
\* that takes conf_noise and deaths_noise, with live cells in both channels
\* and any combination of the two options, completes, declares both
\* likelihoods, and declares the learned Phi_1 exactly when one of the two
\* constants is absent.
C22_DispersionConfiguration ==
    [][(/\ last'.op = "build_model"
        /\ self.named_vars = {}
        /\ {"conf_noise", "deaths_noise"} \subseteq Accepts(self.variant)
        /\ last'.kw.cm_prior = "unset"
        /\ Len(self.all_observed_active) > 0
        /\ Len(self.all_observed_deaths) > 0)
       => /\ last'.raised = "none"
          /\ {"ObservedCases", "ObservedDeaths"} \subseteq self'.named_vars
          /\ "Phi_1" \in self'.named_vars
                <=> ~(ConfFixed(last'.kw) /\ DeathsFixed(last'.kw))]_vars

\* cells that are unmasked and have a cumulative count in the dataset
LiveCases == {c \in Unmasked(data.NewCases_mask) : ~data.Confirmed_nan[c[1]][c[2]]}
LiveDeaths == {c \in Unmasked(data.NewDeaths_mask) : ~data.Deaths_nan[c[1]][c[2]]}

\* C23. Likelihood alignment: in a model that build_model completed, every
\* term of each channel's likelihood pairs the expected and the observed count
\* of the same (region, calendar day) cell, the cell is unmasked and counted
\* in the dataset, and there are as many terms as the channel's index list
\* has entries, each for a different cell.
C23_LikelihoodAlignment ==
    (last.op = "build_model" /\ last.raised = "none") =>
        /\ HasCases(self) =>
              LET terms == Terms(self, CaseList(self))
              IN /\ \A k \in DOMAIN terms :
                       /\ terms[k].mu = terms[k].observed
                       /\ terms[k].mu \in LiveCases
                 /\ Cardinality({terms[k].mu : k \in DOMAIN terms}) = Len(CaseList(self))
        /\ HasDeaths(self) =>
              LET terms == Terms(self, DeathList(self))
              IN /\ \A k \in DOMAIN terms :
                       /\ terms[k].mu = terms[k].observed
                       /\ terms[k].mu \in LiveDeaths
                 /\ Cardinality({terms[k].mu : k \in DOMAIN terms}) = Len(DeathList(self))

\* a built ICL model whose first case term is day CMDelayCut of region 0,
\* flat index 0
C23_Witness ==
    /\ last.op = "build_model"
    /\ last.raised = "none"
    /\ self.variant = "CMCombined_Final_ICL"
    /\ "ObservedCases" \in self.named_vars
    /\ self.all_observed_active[1] = 0
    /\ Terms(self, self.all_observed_active)[1].observed = <<0, CMDelayCut>>
    /\ Len(self.all_observed_deaths) > nDs - CMDelayCut

\* Variant(dt): the instance and the dataset a constructor leaves behind
Variant_init(v, dt) ==
    CASE v = "CMDeath_Final" -> CMDeath_Final_init(dt)
      [] v = "CMActive_Final" -> CMActive_Final_init(dt)
      [] v = "CMCombined_Final" -> CMCombined_Final_init(dt)
      [] v = "CMCombined_Final_DifDelays" -> CMCombined_Final_DifDelays_init(dt)
      [] v = "CMCombined_Final_V3" -> CMCombined_Final_V3_init(dt)
      [] v = "CMCombined_Final_NoNoise" -> CMCombined_Final_NoNoise_init(dt)
      [] v = "CMCombined_Additive" -> CMCombined_Additive_init(dt)
      [] v = "CMCombined_Final_DifEffects" -> CMCombined_Final_DifEffects_init(dt)
      [] v = "CMCombined_Final_ICL" -> CMCombined_Final_ICL_init(dt)

\* the live-index lists and the region sets of an instance
LiveSets(m) ==
    [cases |-> IF HasCases(m) THEN CaseList(m) ELSE <<>>,
     deaths |-> IF HasDeaths(m) THEN DeathList(m) ELSE <<>>,
     short_rs |-> m.short_rs, long_rs |-> m.long_rs]

\* C24. Order independence on a shared dataset: a variant constructed second
\* on a dataset on which exactly one other variant was constructed has the
\* live-index lists (and region sets) it has when constructed alone on a
\* fresh copy of the dataset.
C24_OrderIndependence ==
    [][(/\ Constructed
        /\ data = Variant_init(self.variant, raw).d
        /\ last'.op = "__init__")
       => LiveSets(self') = LiveSets(Variant_init(self'.variant, raw).self)]_vars

\* one infection per region and day
UnitCurve == [r \in Rs |-> [d \in Ds |-> 1]]

\* C25. Dual-delay recombination: in CMCombined_Final_DifDelays every region's
\* ExpectedCases row is the convolution of its InfectedCases row with exactly
\* one of the two case kernels, the short one for the regions of short_rs and
\* the long one for those of long_rs, and no row is left all-zero.
C25_DualDelayRecombination ==
    (Constructed /\ self.variant = "CMCombined_Final_DifDelays") =>
        LET ExpectedCases == ExpectedCases_DifDelays(self, UnitCurve)
            short == Expected(self, UnitCurve, Filter(DelayProbCasesShort), DelayProbCases_size)
            long == Expected(self, UnitCurve, Filter(DelayProbCasesLong), DelayProbCases_size)
        IN \A r \in Rs :
              /\ r \in self.short_rs => ExpectedCases[r] = short[r]
              /\ r \in self.long_rs => ExpectedCases[r] = long[r]
              /\ ExpectedCases[r] \in {short[r], long[r]}
              /\ \E d \in Ds : ExpectedCases[r][d] # 0

\* C26. Additive composition (CMCombined_Additive): GrowthReduction[r,d] is
\* Beta_hat plus the sum over NPIs of CM_Beta times the inactive share
\* 1 - ActiveCMs[r,npi,d]; it lies between Beta_hat and 1, is 1 where no NPI
\* is active and Beta_hat where every NPI is fully active; the effective R is
\* RegionR[r] * GrowthReduction[r,d].
C26_AdditiveComposition ==
    calc.op = "GrowthReduction" =>
        LET Beta_hat == calc.th.AllBeta[0]
            one == 1000 * ActiveUnit
        IN \A r \in Rs, d \in Ds :
              LET active == [c \in CMIndx |-> data.ActiveCMs[r][c][d]]
                  gr == calc.out[r][d]
              IN /\ gr = one - (calc.th.AllBeta[1] * active[0] + calc.th.AllBeta[2] * active[1])
                 /\ ActiveUnit * Beta_hat <= gr /\ gr <= one
                 /\ (\A c \in CMIndx : active[c] = 0) => gr = one
                 /\ (\A c \in CMIndx : active[c] = ActiveUnit) => gr = ActiveUnit * Beta_hat
                 /\ 100 * calc.R[r][d] = calc.th.RegionR[r] * gr

\* a draw evaluated on a dataset with a day on which no NPI is active, a day
\* on which both are and a day on which only one is
C26_Witness ==
    /\ calc.op = "GrowthReduction"
    /\ calc.th.AllBeta[0] = 500
    /\ calc.th.RegionR[1] = 400
    /\ \E d \in Ds : calc.out[1][d] = 1000 * ActiveUnit
    /\ \E d \in Ds : calc.out[1][d] = 500 * ActiveUnit /\ calc.R[1][d] = 2000 * ActiveUnit
    /\ \E d \in Ds : calc.out[1][d] \notin {1000 * ActiveUnit, 500 * ActiveUnit}

\* the draw th with log R of channel ch switched between 0 and 0.693 in every
\* region and on every day
OtherLogR(th, ch) ==
    [th EXCEPT !.LogR[ch] = [r \in Rs |-> [d \in DOMAIN th.LogR[ch][r] |->
                                693 - th.LogR[ch][r][d]]]]

\* the draw th with another InitialSize_log of channel ch in every region
OtherSeed(th, ch) ==
    [th EXCEPT !.InitialSize_log[ch] = [r \in Rs |->
                                (th.InitialSize_log[ch][r] + 693) % 2079]]

\* C27. Channel independence in the ICL recursion: a draw that differs from
\* the evaluated one only in the R or only in the initial size of one channel
\* computes the same Infected for the other channel; the two channels are
\* exposed as the outputs InfectedCases and InfectedDeaths.
C27_ChannelIndependence ==
    calc.op = "Infected" =>
        /\ {"InfectedCases", "InfectedDeaths"} \subseteq self.named_vars
        /\ \A ch \in Channels :
              \A other \in {OtherLogR(calc.th, ch), OtherSeed(calc.th, ch)} :
                  Infected(self, other)[1 - ch] = calc.out[1 - ch]

\* a draw at which another R and another initial size of the case channel
\* each change InfectedCases
C27_Witness ==
    /\ calc.op = "Infected"
    /\ calc.out[0] # calc.out[1]
    /\ Infected(self, OtherLogR(calc.th, 0))[0] # calc.out[0]
    /\ Infected(self, OtherSeed(calc.th, 0))[0] # calc.out[0]

\* C28. Mask monotonicity: no operation resets a mask flag that is set, so
\* the set of unmasked cells of either channel never grows.
C28_MaskMonotone ==
    [][/\ \A r \in Rs, d \in Ds :
            /\ data.NewCases_mask[r][d] => data'.NewCases_mask[r][d]
            /\ data.NewDeaths_mask[r][d] => data'.NewDeaths_mask[r][d]
       /\ Unmasked(data'.NewCases_mask) \subseteq Unmasked(data.NewCases_mask)
       /\ Unmasked(data'.NewDeaths_mask) \subseteq Unmasked(data.NewDeaths_mask)]_vars

\* a constructor ran on a dataset that came with masked death cells, kept them
\* masked and masked further cells of both channels
C28_Witness ==
    /\ Constructed
    /\ \E c \in Rs \X Ds : raw.NewDeaths_mask[c[1]][c[2]] /\ data.NewDeaths_mask[c[1]][c[2]]
    /\ Unmasked(data.NewDeaths_mask) # Unmasked(raw.NewDeaths_mask)
    /\ Unmasked(data.NewCases_mask) # Unmasked(raw.NewCases_mask)
    /\ Unmasked(data.NewDeaths_mask) # {}

\* the delay kernels of an instance: every kernel attribute but the serial
\* interval
DelayKernelsOf(m) == {m.kernels[a] : a \in DOMAIN m.kernels \ {"SI"}}

\* C29. Strict reporting delay: every delay kernel a constructor sets gives
\* weight zero to a delay of zero days; hence Expected[r,0] = 0 and
\* Expected[r,d] is the same for any other value of Infected[r,d] of the same
\* day, in the case and in the death channel.
C29_StrictReportingDelay ==
    /\ self.variant # "none" => \A kernel \in DelayKernelsOf(self) : kernel[1] = 0
    /\ calc.op = "ExpectedDelay" =>
          \A r \in Rs :
             /\ calc.out[r][0] = 0
             /\ \A d \in Ds :
                   Expected(self, [calc.X EXCEPT ![r][d] = @ + 1], calc.kernel, calc.L)[r][d]
                      = calc.out[r][d]

\* expected deaths evaluated where infections of day 0 are counted from day 1 on
C29_Witness ==
    /\ calc.op = "ExpectedDelay"
    /\ calc.channel = "Deaths"
    /\ calc.X[0][0] = 2
    /\ calc.out[0][0] = 0
    /\ calc.out[0][1] > 0
    /\ Expected(self, [calc.X EXCEPT ![0][0] = 3], calc.kernel, calc.L)[0][1] > calc.out[0][1]

\* C30. Baseline R loggable: RegionR = R_hyperprior_mean + RegionLogR_noise *
\* HyperRVar is strictly positive at every draw of the noise and of
\* HyperRVar >= 0, so log(RegionR) is finite.
C30_BaselineRLoggable ==
    calc.op = "RegionR" =>
        \A r \in Rs : calc.out[r] > 0 /\ calc.log[r] = "fin"

====
